---- MODULE Spec2Model ----
(***************************************************************************)
(* Dispatch core of src/socket.js: the sequential RAID_ID generator, the   *)
(* bookRide handler and the acceptRide handler, as interleaved handler     *)
(* invocations over the durable store (MongoDB collections RaidId, Ride,   *)
(* Driver) and the in-memory maps rides, activeDriverSockets and           *)
(* processingRides.                                                        *)
(*                                                                         *)
(* Node runs every handler on one thread; a handler gives up control only  *)
(* at an `await`.  Each awaited store call is two steps here: the store    *)
(* applies the operation (pc "x" -> "xDone") and, later, the handler       *)
(* resumes with the result (pc "xDone" -> ...).  Other invocations may     *)
(* take steps in between.  A store call that rejects changes nothing in    *)
(* the store, so its rejection and the handler's catch are one step.       *)
(***************************************************************************)
EXTENDS Integers, Sequences, FiniteSets, Bags, TLC

VARIABLES
    sequence,             \* RaidId document {_id:'raidId'}.sequence; 0 = no document yet
    rideDb,               \* Ride collection: a set of ride documents
    rides,                \* `rides` (socket.js:9): rideId -> in-memory working copy
    processingRides,      \* `processingRides` (socket.js:11)
    activeDriverSockets,  \* `activeDriverSockets` (socket.js:10): driverId -> entry
    emitted,              \* bag of the socket.io events sent so far
    bk,                   \* bookRide invocations: call -> locals and position
    acc,                  \* acceptRide invocations: driver -> locals and position
    uniqueIndex,          \* the Ride collection has a unique index on RAID_ID
    recording,            \* history: TRUE when epoch and overlap are kept
    epoch,                \* history: number of wraparound resets applied so far
    overlap,              \* history: pairs of calls that were in the generator together
    removals,             \* bag of the rideIds whose removal timer (socket.js:919) is pending
    inRoom,               \* the rider's connections that are joined to the rider's room
    received,             \* rider connection -> the events delivered to it
    loc,                  \* the userLocationUpdate invocation: locals and position
    rideEvents,           \* number of rejectRide and completeRide events handled
    now,                  \* Date.now(), in milliseconds since the server started
    driverSockets,        \* driver-side connection -> connected, socket.driverId, rooms
    driverLocations,      \* DriverLocation collection: the documents saved
    pendingSaves,         \* un-awaited saveDriverLocationToDB calls the store has not settled
    reg,                  \* registerDriver invocations: connection -> locals and position
    upd,                  \* driver location events: connection -> locals and position
    markedOffline         \* history: driverId -> when disconnect marked its entry offline

\* The state that only the ride-lifecycle and rider-side handlers touch
riderVars == <<removals, inRoom, received, loc, rideEvents>>

\* The state that only the presence handlers and the cleanup timer touch
presenceVars ==
    <<now, driverSockets, driverLocations, pendingSaves, reg, upd, markedOffline>>

vars == <<sequence, rideDb, rides, processingRides, activeDriverSockets,
          emitted, bk, acc, uniqueIndex, recording, epoch, overlap, riderVars,
          presenceVars>>

----------------------------------------------------------------------------
(* Bounds of the model *)

NumCalls == 3      \* bookRide invocations
NumDrivers == 2    \* drivers, one acceptRide invocation each
NumConns == 2      \* connections of the rider who booked the stored ride
NumDriverConns == 2 \* driver-side connections
MaxTicks == 3      \* advances of the clock
MaxRideEvents == 2 \* rejectRide and completeRide events the drivers send

Calls == 1..NumCalls
DriverIds == 1..NumDrivers
Conns == 1..NumConns
DriverConns == 1..NumDriverConns

(* Program constants *)

SeqCeiling == 999999    \* if (sequenceNumber > 999999)
SeqReset == 100000      \* { sequence: 100000 }
PadWidth == 6           \* padStart(6, '0')
StampWidth == 6         \* slice(-6)
RandomWidth == 3        \* padStart(3, '0')
OtpWidth == 4           \* customerId.slice(-4), customerId.length >= 4

----------------------------------------------------------------------------
(* Strings are sequences of one-character strings. *)

DigitChars == <<"0", "1", "2", "3", "4", "5", "6", "7", "8", "9">>

IsDigit(ch) == \E i \in 1..10 : DigitChars[i] = ch

RECURSIVE NumToString(_)
\* Number.prototype.toString() of a non-negative integer
NumToString(n) ==
    IF n < 10 THEN <<DigitChars[n + 1]>>
    ELSE NumToString(n \div 10) \o <<DigitChars[(n % 10) + 1]>>

RECURSIVE PadStart(_, _, _)
\* String.prototype.padStart(width, ch)
PadStart(s, width, ch) ==
    IF Len(s) >= width THEN s ELSE PadStart(<<ch>> \o s, width, ch)

\* String.prototype.slice(-k)
SliceLast(s, k) ==
    IF Len(s) <= k THEN s ELSE SubSeq(s, Len(s) - k + 1, Len(s))

RidTag == <<"R", "I", "D">>

\* Faulty variant: the padStart is left out
FormatRaidIdNoPad(sequenceNumber) ==
    RidTag \o NumToString(sequenceNumber)

\* `RID${sequenceNumber.toString().padStart(6, '0')}`
FormatRaidId(sequenceNumber) ==
    RidTag \o PadStart(NumToString(sequenceNumber), PadWidth, "0")

\* `RID${Date.now().toString().slice(-6)}${random.toString().padStart(3,'0')}`
FallbackRaidId(nowString, random) ==
    RidTag \o SliceLast(nowString, StampWidth)
           \o PadStart(NumToString(random), RandomWidth, "0")

\* Date.now().toString(): the clock reading as its decimal digits (13 digits today)
NowStrings ==
    { <<"1","7","9","3","5","4","8","8","0","0","1","2","3">> }

\* Math.floor(Math.random() * 1000)
RandomSamples == {7, 420}

NoId == <<>>    \* `let rideId;` not assigned

----------------------------------------------------------------------------
(* bookRide payloads (socket.js:394).  A field that is absent is Missing. *)

Missing == "undefined"
NoString == <<>>       \* an absent (or empty) string-valued field

Falsy(x) == x = Missing          \* !x for userId, userName, pickup, drop
FalsyString(s) == s = NoString   \* !x for customerId

\* u1's customer id has 4 or more characters, u2's has fewer
CustomerIdOf(u) ==
    IF u = "u1" THEN <<"C", "9", "1", "2", "3", "4">> ELSE <<"7", "7">>

\* present = FALSE: the event arrived without a payload (data is undefined)
BookingData(u, p) ==
    [present |-> TRUE, userId |-> u, customerId |-> CustomerIdOf(u),
     userName |-> "rider", pickup |-> p, drop |-> "drop"]

NoData ==
    [present |-> FALSE, userId |-> Missing, customerId |-> NoString,
     userName |-> Missing, pickup |-> Missing, drop |-> Missing]

\* A complete booking by u1, a booking by u2 without pickup, no payload at all
Payloads ==
    { BookingData("u1", "pickup"), BookingData("u2", Missing), NoData }

\* Math.floor(1000 + Math.random() * 9000)
RandomOtps == {1000, 9999}

\* socket.js:412-417
OtpChoices(customerId) ==
    IF ~FalsyString(customerId) /\ Len(customerId) >= OtpWidth
    THEN { SliceLast(customerId, OtpWidth) }
    ELSE { NumToString(r) : r \in RandomOtps }

NoOtp == <<>>

----------------------------------------------------------------------------
(* A bookRide invocation's locals.                                         *)
(*   pc       where the invocation is                                      *)
(*   data     the payload                                                  *)
(*   seq      raidIdDoc.sequence as read by generateSequentialRaidId       *)
(*   rideId   `let rideId` (NoId until the generator returns)              *)
(*   otp      `let otp`                                                    *)
(*   acks     the arguments callback was invoked with, in order            *)
(*   path     how the generator produced rideId                            *)
(*   retEpoch history: value of epoch when the generator returned          *)
(*   existing `existingRide`: the document found, or NoDoc                 *)
(*   taken    history: a document was stored under rideId when it was generated *)

NoDoc == <<>>                     \* findOne found nothing
FoundDoc(o) == <<"doc", o>>       \* findOne found a document whose otp is o

IdleBooking ==
    [pc |-> "idle", data |-> NoData, seq |-> 0, rideId |-> NoId, otp |-> NoOtp,
     acks |-> <<>>, path |-> "none", retEpoch |-> 0, existing |-> NoDoc,
     taken |-> FALSE]

GenPcs == {"genInc", "genIncDone", "genReset", "genResetDone"}

InGenerator(c) == bk[c].pc \in GenPcs

Ack(success, message, id, o) ==
    [rideId |-> id, otp |-> o, success |-> success, message |-> message]

FailAck(message) == Ack(FALSE, message, NoId, NoOtp)

\* The handler has returned: its locals are gone.  What it was called with,
\* the identifier it generated and what it acknowledged are kept for the record.
Finished(b, acks) ==
    [b EXCEPT !.pc = "done", !.acks = acks, !.seq = 0, !.otp = NoOtp,
              !.retEpoch = 0, !.existing = NoDoc]

\* The documents of the Ride collection whose RAID_ID is id
DocsWithId(id) == { r \in rideDb : r.RAID_ID = id }

----------------------------------------------------------------------------
(* generateSequentialRaidId (socket.js:73-112), called by bookRide *)

\* socket.js:391-399: the handler starts, destructures the payload and calls the
\* generator, which issues the $inc.  Destructuring an absent payload throws
\* inside the try: the catch acknowledges failure, rideId is still unset.
BookRideStart(c, data) ==
    /\ bk[c].pc = "idle"
    /\ \A d \in Calls : d < c => bk[d].pc # "idle"    \* calls are numbered as they arrive
    /\ IF ~data.present
       THEN /\ bk' = [bk EXCEPT ![c] =
                        Finished([@ EXCEPT !.data = data],
                                 <<FailAck("Failed to process ride booking")>>)]
            /\ UNCHANGED overlap
       ELSE /\ bk' = [bk EXCEPT ![c].pc = "genInc", ![c].data = data]
            /\ overlap' = IF recording
                          THEN overlap \cup { {c, d} : d \in { x \in Calls : InGenerator(x) } }
                          ELSE overlap
    /\ UNCHANGED <<sequence, rideDb, rides, processingRides, activeDriverSockets,
                   emitted, acc, uniqueIndex, recording, presenceVars, riderVars, epoch>>

\* socket.js:77-81: findOneAndUpdate {$inc: {sequence: 1}}, {new: true, upsert: true},
\* applied atomically by the store
RaidIdIncrement(c) ==
    /\ bk[c].pc = "genInc"
    /\ sequence' = sequence + 1
    /\ bk' = [bk EXCEPT ![c].pc = "genIncDone", ![c].seq = sequence + 1]
    /\ UNCHANGED <<rideDb, rides, processingRides, activeDriverSockets,
                   emitted, acc, uniqueIndex, recording, presenceVars, riderVars, epoch, overlap>>

\* socket.js:102-110: the catch block's fallback identifier
GenFallback(c, nowString, random) ==
    bk' = [bk EXCEPT ![c].pc = "generated", ![c].path = "fallback",
                     ![c].rideId = FallbackRaidId(nowString, random),
                     ![c].retEpoch = epoch,
                     ![c].taken = DocsWithId(FallbackRaidId(nowString, random)) # {}]

\* socket.js:77-81 rejects, 102-110 runs
RaidIdIncrementFails(c) ==
    /\ bk[c].pc = "genInc"
    /\ \E nowString \in NowStrings, random \in RandomSamples :
            GenFallback(c, nowString, random)
    /\ UNCHANGED <<sequence, rideDb, rides, processingRides, activeDriverSockets,
                   emitted, acc, uniqueIndex, recording, presenceVars, riderVars, epoch, overlap>>

\* socket.js:85-101 on the path that needs no reset; 88-93 issues the reset otherwise
GenAfterIncrement(c) ==
    /\ bk[c].pc = "genIncDone"
    /\ IF bk[c].seq > SeqCeiling
       THEN bk' = [bk EXCEPT ![c].pc = "genReset"]
       ELSE bk' = [bk EXCEPT ![c].pc = "generated", ![c].path = "durable",
                             ![c].rideId = FormatRaidId(bk[c].seq),
                             ![c].retEpoch = epoch,
                             ![c].taken = DocsWithId(FormatRaidId(bk[c].seq)) # {}]
    /\ UNCHANGED <<sequence, rideDb, rides, processingRides, activeDriverSockets,
                   emitted, acc, uniqueIndex, recording, presenceVars, riderVars, epoch, overlap>>

\* Faulty variant: the reset is acknowledged but writes nothing
RaidIdResetSkipsWrite(c) ==
    /\ bk[c].pc = "genReset"
    /\ epoch' = IF recording THEN epoch + 1 ELSE epoch
    /\ bk' = [bk EXCEPT ![c].pc = "genResetDone"]
    /\ UNCHANGED <<sequence, rideDb, rides, processingRides, activeDriverSockets,
                   emitted, acc, uniqueIndex, recording, presenceVars, riderVars, overlap>>

\* socket.js:90-93: findOneAndUpdate {sequence: 100000}, unconditional
RaidIdReset(c) ==
    /\ bk[c].pc = "genReset"
    /\ sequence' = SeqReset
    /\ epoch' = IF recording THEN epoch + 1 ELSE epoch
    /\ bk' = [bk EXCEPT ![c].pc = "genResetDone"]
    /\ UNCHANGED <<rideDb, rides, processingRides, activeDriverSockets,
                   emitted, acc, uniqueIndex, recording, presenceVars, riderVars, overlap>>

\* Faulty variant: the reset sits outside the try, its rejection reaches bookRide's catch
RaidIdResetFailsPropagates(c) ==
    /\ bk[c].pc = "genReset"
    /\ bk' = [bk EXCEPT ![c] =
                Finished(@, <<FailAck("Failed to process ride booking")>>)]
    /\ UNCHANGED <<sequence, rideDb, rides, processingRides, activeDriverSockets,
                   emitted, acc, uniqueIndex, recording, presenceVars, riderVars, epoch, overlap>>

\* socket.js:90-93 rejects, 102-110 runs
RaidIdResetFails(c) ==
    /\ bk[c].pc = "genReset"
    /\ \E nowString \in NowStrings, random \in RandomSamples :
            GenFallback(c, nowString, random)
    /\ UNCHANGED <<sequence, rideDb, rides, processingRides, activeDriverSockets,
                   emitted, acc, uniqueIndex, recording, presenceVars, riderVars, epoch, overlap>>

\* socket.js:94-101: sequenceNumber = 100000, format, return
GenAfterReset(c) ==
    /\ bk[c].pc = "genResetDone"
    /\ bk' = [bk EXCEPT ![c].pc = "generated", ![c].path = "reset",
                        ![c].rideId = FormatRaidId(SeqReset),
                        ![c].retEpoch = epoch,
                        ![c].taken = DocsWithId(FormatRaidId(SeqReset)) # {}]
    /\ UNCHANGED <<sequence, rideDb, rides, processingRides, activeDriverSockets,
                   emitted, acc, uniqueIndex, recording, presenceVars, riderVars, epoch, overlap>>

----------------------------------------------------------------------------
(* The Ride collection *)

NoDriver == 0     \* the document has no driverId
NoDocId == -1     \* a payload that carries no _id

\* A Ride document as bookRide saves it (socket.js:466-505, 522): status pending,
\* no driver.  docId stands for _id: the invocation that created the document.
NewRideDoc(c) ==
    [otp |-> bk[c].otp, RAID_ID |-> bk[c].rideId, user |-> bk[c].data.userId,
     status |-> "pending", driverId |-> NoDriver, docId |-> c]

\* Ride.findOne({ RAID_ID: id }): one matching document, or null
FindOneResults(id) ==
    IF DocsWithId(id) = {} THEN { NoDoc }
    ELSE { FoundDoc(r.otp) : r \in DocsWithId(id) }

\* Where the collection has a unique index on RAID_ID, the insert of an id
\* already stored is rejected with error 11000 and keyPattern.RAID_ID, the
\* error socket.js:575 handles.  The schema decides whether it has.
UniqueRaidIdIndexRejects(id) == uniqueIndex /\ DocsWithId(id) # {}

----------------------------------------------------------------------------
(* bookRide (socket.js:391-613) after the generator has returned *)

EmptyMap == [x \in {} |-> x]

\* An event handed to socket.io: its name, its addressees, and of its payload
\* the ride, the otp and the driver it carries (NoOtp, NoDriver: none).
\* docId is the _id of the ride document the event is about, sender the driver
\* whose connection's handler sent it (NoDriver: a rider's connection).
Event(name, addressees, id, o, driver, doc) ==
    [rideId |-> id, otp |-> o, driverId |-> driver, docId |-> doc,
     event |-> name, to |-> addressees, sender |-> NoDriver]

\* io.emit("newRideRequest", {...data, rideId, _id}) (socket.js:536-540)
NewRideRequest(c) ==
    Event("newRideRequest", "all", bk[c].rideId, NoOtp, NoDriver, c)

Emit(e) == emitted' = emitted (+) SetToBag({e})

\* Faulty variant: the entry is left in processingRides
ReleaseKeeps(id) == UNCHANGED processingRides

\* processingRides.delete(rideId): in the early returns and in the finally
\* block (socket.js:607-612), which runs on every path once rideId is set
Release(id) == processingRides' = processingRides \ {id}

MissingRequired(data) ==
    \/ Falsy(data.userId) \/ FalsyString(data.customerId) \/ Falsy(data.userName)
    \/ Falsy(data.pickup) \/ Falsy(data.drop)

\* socket.js:400-449: otp, the processingRides guard, the required-field check,
\* then Ride.findOne is issued.  Both early returns run the finally block.
BookAfterGenerate(c) ==
    /\ bk[c].pc = "generated"
    /\ \E o \in OtpChoices(bk[c].data.customerId) :
        IF bk[c].rideId \in processingRides
        THEN /\ bk' = [bk EXCEPT ![c] =
                        Finished(@, Append(@.acks, FailAck("Ride is already being processed")))]
             /\ Release(bk[c].rideId)
        ELSE IF MissingRequired(bk[c].data)
        THEN /\ bk' = [bk EXCEPT ![c] =
                        Finished(@, Append(@.acks, FailAck("Missing required fields")))]
             /\ Release(bk[c].rideId)
        ELSE /\ bk' = [bk EXCEPT ![c].pc = "findExisting", ![c].otp = o]
             /\ processingRides' = processingRides \cup {bk[c].rideId}
    /\ UNCHANGED <<sequence, rideDb, rides, activeDriverSockets, emitted, acc,
                   uniqueIndex, recording, presenceVars, riderVars, epoch, overlap>>

\* socket.js:449: Ride.findOne({ RAID_ID: rideId }) answered by the store
RideFindExisting(c) ==
    /\ bk[c].pc = "findExisting"
    /\ \E found \in FindOneResults(bk[c].rideId) :
            bk' = [bk EXCEPT ![c].pc = "findExistingDone", ![c].existing = found]
    /\ UNCHANGED <<sequence, rideDb, rides, processingRides, activeDriverSockets,
                   emitted, acc, uniqueIndex, recording, presenceVars, riderVars, epoch, overlap>>

\* Faulty variant: the catch block acknowledges nothing
BookFailsSilently(c) ==
    /\ bk' = [bk EXCEPT ![c] = Finished(@, @.acks)]
    /\ Release(bk[c].rideId)


\* socket.js:559-606 (last else) and 607-612: any other error of the try
BookFails(c) ==
    /\ bk' = [bk EXCEPT ![c] =
                Finished(@, Append(@.acks, FailAck("Failed to process ride booking")))]
    /\ Release(bk[c].rideId)

\* socket.js:449 rejects
RideFindExistingFails(c) ==
    /\ bk[c].pc = "findExisting"
    /\ BookFails(c)
    /\ UNCHANGED <<sequence, rideDb, rides, activeDriverSockets, emitted, acc,
                   uniqueIndex, recording, presenceVars, riderVars, epoch, overlap>>

\* Faulty variant: the existing ride is acknowledged with the otp of this invocation
BookAfterFindExistingOwnOtp(c) ==
    /\ bk[c].pc = "findExistingDone"
    /\ IF bk[c].existing # NoDoc
       THEN /\ bk' = [bk EXCEPT ![c] =
                        Finished(@, Append(@.acks, Ack(TRUE, "Ride already exists",
                                                       @.rideId, @.otp)))]
            /\ Release(bk[c].rideId)
       ELSE /\ bk' = [bk EXCEPT ![c].pc = "save"]
            /\ UNCHANGED processingRides
    /\ UNCHANGED <<sequence, rideDb, rides, activeDriverSockets, emitted, acc,
                   uniqueIndex, recording, presenceVars, riderVars, epoch, overlap>>

\* socket.js:450-522: an existing document is acknowledged as the booking;
\* otherwise the document is built, validated and its save is issued
BookAfterFindExisting(c) ==
    /\ bk[c].pc = "findExistingDone"
    /\ IF bk[c].existing # NoDoc
       THEN /\ bk' = [bk EXCEPT ![c] =
                        Finished(@, Append(@.acks, Ack(TRUE, "Ride already exists",
                                                       @.rideId, @.existing[2])))]
            /\ Release(bk[c].rideId)
       ELSE /\ bk' = [bk EXCEPT ![c].pc = "save"]
            /\ UNCHANGED processingRides
    /\ UNCHANGED <<sequence, rideDb, rides, activeDriverSockets, emitted, acc,
                   uniqueIndex, recording, presenceVars, riderVars, epoch, overlap>>

\* Faulty variant: the request goes out although the booking failed validation
BookValidationFailsBroadcasts(c) ==
    /\ bk[c].pc = "findExistingDone"
    /\ bk[c].existing = NoDoc
    /\ bk' = [bk EXCEPT ![c] =
                Finished(@, Append(@.acks, FailAck("Validation failed")))]
    /\ Release(bk[c].rideId)
    /\ Emit(NewRideRequest(c))
    /\ UNCHANGED <<sequence, rideDb, rides, activeDriverSockets, acc,
                   uniqueIndex, recording, presenceVars, riderVars, epoch, overlap>>


\* socket.js:513-519, 563-572: newRide.validate() rejects with a ValidationError
\* (the Ride schema decides; it is not part of socket.js)
BookValidationFails(c) ==
    /\ bk[c].pc = "findExistingDone"
    /\ bk[c].existing = NoDoc
    /\ bk' = [bk EXCEPT ![c] =
                Finished(@, Append(@.acks, FailAck("Validation failed")))]
    /\ Release(bk[c].rideId)
    /\ UNCHANGED <<sequence, rideDb, rides, activeDriverSockets, emitted, acc,
                   uniqueIndex, recording, presenceVars, riderVars, epoch, overlap>>

\* socket.js:522: newRide.save() inserts the document
RideSave(c) ==
    /\ bk[c].pc = "save"
    /\ ~UniqueRaidIdIndexRejects(bk[c].rideId)
    /\ rideDb' = rideDb \cup {NewRideDoc(c)}
    /\ bk' = [bk EXCEPT ![c].pc = "saveDone"]
    /\ UNCHANGED <<sequence, rides, processingRides, activeDriverSockets, emitted,
                   acc, uniqueIndex, recording, presenceVars, riderVars, epoch, overlap>>

\* socket.js:522 rejects with the duplicate-key error; 575-580 issues Ride.findOne
RideSaveDuplicateKey(c) ==
    /\ bk[c].pc = "save"
    /\ UniqueRaidIdIndexRejects(bk[c].rideId)
    /\ bk' = [bk EXCEPT ![c].pc = "findDuplicate"]
    /\ UNCHANGED <<sequence, rideDb, rides, processingRides, activeDriverSockets,
                   emitted, acc, uniqueIndex, recording, presenceVars, riderVars, epoch, overlap>>

\* socket.js:522 rejects with another error
RideSaveFails(c) ==
    /\ bk[c].pc = "save"
    /\ BookFails(c)
    /\ UNCHANGED <<sequence, rideDb, rides, activeDriverSockets, emitted, acc,
                   uniqueIndex, recording, presenceVars, riderVars, epoch, overlap>>

\* rides[rideId] = {...data, rideId, status: "pending", timestamp, _id} (socket.js:527-533)
WorkingCopy(c) ==
    [userId |-> bk[c].data.userId, status |-> "pending", docId |-> c]

\* socket.js:523-557, 607-612: working copy, broadcast, acknowledgement, release
BookAfterSave(c) ==
    /\ bk[c].pc = "saveDone"
    /\ rides' = (bk[c].rideId :> WorkingCopy(c)) @@ rides
    /\ Emit(NewRideRequest(c))
    /\ bk' = [bk EXCEPT ![c] =
                Finished(@, Append(@.acks, Ack(TRUE, "Ride booked successfully!",
                                               @.rideId, @.otp)))]
    /\ Release(bk[c].rideId)
    /\ UNCHANGED <<sequence, rideDb, activeDriverSockets, acc, uniqueIndex, recording, presenceVars, riderVars, epoch, overlap>>

\* socket.js:580: Ride.findOne({ RAID_ID: rideId }) in the duplicate-key branch
RideFindDuplicate(c) ==
    /\ bk[c].pc = "findDuplicate"
    /\ \E found \in FindOneResults(bk[c].rideId) :
            bk' = [bk EXCEPT ![c].pc = "findDuplicateDone", ![c].existing = found]
    /\ UNCHANGED <<sequence, rideDb, rides, processingRides, activeDriverSockets,
                   emitted, acc, uniqueIndex, recording, presenceVars, riderVars, epoch, overlap>>

\* socket.js:580 rejects, 590-598 and 607-612 run
RideFindDuplicateFails(c) ==
    /\ bk[c].pc = "findDuplicate"
    /\ bk' = [bk EXCEPT ![c] =
                Finished(@, Append(@.acks,
                            FailAck("Failed to process ride booking (duplicate error)")))]
    /\ Release(bk[c].rideId)
    /\ UNCHANGED <<sequence, rideDb, rides, activeDriverSockets, emitted, acc,
                   uniqueIndex, recording, presenceVars, riderVars, epoch, overlap>>

\* socket.js:581-589, 607-612: the existing document is acknowledged (nothing
\* is acknowledged when none is found)
BookAfterFindDuplicate(c) ==
    /\ bk[c].pc = "findDuplicateDone"
    /\ bk' = [bk EXCEPT ![c] =
                Finished(@, IF @.existing # NoDoc
                            THEN Append(@.acks,
                                        Ack(TRUE, "Ride already exists (duplicate handled)",
                                            @.rideId, @.existing[2]))
                            ELSE @.acks)]
    /\ Release(bk[c].rideId)
    /\ UNCHANGED <<sequence, rideDb, rides, activeDriverSockets, emitted, acc,
                   uniqueIndex, recording, presenceVars, riderVars, epoch, overlap>>

----------------------------------------------------------------------------
(* acceptRide (socket.js:629-811).  Driver d's connection sends the event  *)
(* with its own driverId.  An invocation's locals:                         *)
(*   pc           where the invocation is                                  *)
(*   rideId       data.rideId                                              *)
(*   acks         the arguments callback was invoked with, in order        *)
(*   ride         `ride`: <<the document as read and then edited>>, or NoDoc *)
(*   driverMobile `ride.driverMobile`                                      *)
(*   timer        the setTimeout of socket.js:751 is pending               *)

IdleAccept ==
    [pc |-> "idle", rideId |-> NoId, acks |-> <<>>, ride |-> NoDoc,
     driverMobile |-> Missing, timer |-> FALSE]

\* The payloads of acceptRide: for the stored ride, for an id nothing is
\* stored under, and none at all
AcceptData(id) == [present |-> TRUE, rideId |-> id]

NoAcceptData == [present |-> FALSE, rideId |-> NoId]

\* The handler has returned and no timer of it is pending: its locals are gone
FinishedAccept(a, acks) ==
    [a EXCEPT !.pc = "done", !.acks = acks, !.ride = NoDoc, !.driverMobile = Missing]

\* socket.js:800-810: the catch block
ServerError == FailAck("Server error")

AlreadyAccepted == FailAck("This ride has already been accepted by another driver.")

\* Faulty variant: io.emit, to every connection, the caller's included
RideAlreadyAcceptedToAll(d, id) ==
    [rideId |-> id, otp |-> NoOtp, driverId |-> NoDriver, docId |-> NoDocId,
     event |-> "rideAlreadyAccepted", to |-> "all", sender |-> d]


\* socket.js:656-659 and 783-786: socket.broadcast.emit, to every connection but d's
RideAlreadyAccepted(d, id) ==
    [rideId |-> id, otp |-> NoOtp, driverId |-> NoDriver, docId |-> NoDocId,
     event |-> "rideAlreadyAccepted", to |-> "others", sender |-> d]

\* An event that carries driverData (socket.js:702-716) or userDataForDriver
\* (757-769) of the invocation of driver d
AcceptEvent(d, name, addressees) ==
    [rideId |-> acc[d].ride[1].RAID_ID, otp |-> acc[d].ride[1].otp,
     driverId |-> acc[d].ride[1].driverId, docId |-> acc[d].ride[1].docId,
     event |-> name, to |-> addressees, sender |-> d]

RECURSIVE BagOf(_)
\* The events of a sequence, as a bag
BagOf(es) ==
    IF es = <<>> THEN EmptyBag ELSE SetToBag({Head(es)}) (+) BagOf(Tail(es))

\* The connections an emission to the room of `user` is delivered to
RoomMembers(user) == IF user = "u2" THEN inRoom ELSE {}

\* The elements of a sequence
Range(es) == { es[i] : i \in DOMAIN es }

\* The events of `es` are delivered to the connections in `conns`
Deliver(conns, es) ==
    received' = [k \in Conns |->
                    IF k \in conns THEN received[k] \cup Range(es) ELSE received[k]]

\* socket.js:629-639: destructuring `data` is outside the try; without a payload
\* it throws, the async handler rejects and nobody is acknowledged.  Otherwise
\* Ride.findOne is issued.
AcceptRideStart(d, data) ==
    /\ acc[d].pc = "idle"
    /\ IF data.present
       THEN acc' = [acc EXCEPT ![d].pc = "findRide", ![d].rideId = data.rideId]
       ELSE acc' = [acc EXCEPT ![d].pc = "rejected"]
    /\ UNCHANGED <<sequence, rideDb, rides, processingRides, activeDriverSockets,
                   emitted, bk, uniqueIndex, recording, presenceVars, riderVars, epoch, overlap>>

\* Ride.findOne({ RAID_ID: rideId }) as acceptRide uses it: the whole document
FindRideResults(id) ==
    IF DocsWithId(id) = {} THEN { NoDoc } ELSE { <<r>> : r \in DocsWithId(id) }

\* socket.js:639 answered by the store
AcceptFindRide(d) ==
    /\ acc[d].pc = "findRide"
    /\ \E found \in FindRideResults(acc[d].rideId) :
            acc' = [acc EXCEPT ![d].pc = "findRideDone", ![d].ride = found]
    /\ UNCHANGED <<sequence, rideDb, rides, processingRides, activeDriverSockets,
                   emitted, bk, uniqueIndex, recording, presenceVars, riderVars, epoch, overlap>>

\* socket.js:639 rejects, 800-810 runs
AcceptFindRideFails(d) ==
    /\ acc[d].pc = "findRide"
    /\ acc' = [acc EXCEPT ![d] = FinishedAccept(@, Append(@.acks, ServerError))]
    /\ UNCHANGED <<sequence, rideDb, rides, processingRides, activeDriverSockets,
                   emitted, bk, uniqueIndex, recording, presenceVars, riderVars, epoch, overlap>>

\* socket.js:641-677: not found; already accepted; otherwise the local document
\* is edited and Driver.findOne is issued
AcceptAfterFindRide(d) ==
    /\ acc[d].pc = "findRideDone"
    /\ IF acc[d].ride = NoDoc
       THEN /\ acc' = [acc EXCEPT ![d] =
                        FinishedAccept(@, Append(@.acks, FailAck("Ride not found")))]
            /\ UNCHANGED <<emitted, received>>
       ELSE IF acc[d].ride[1].status = "accepted"
       THEN /\ Emit(RideAlreadyAccepted(d, acc[d].rideId))
            /\ Deliver(inRoom, <<RideAlreadyAccepted(d, acc[d].rideId)>>)
            /\ acc' = [acc EXCEPT ![d] =
                        FinishedAccept(@, Append(@.acks, AlreadyAccepted))]
       ELSE /\ acc' = [acc EXCEPT ![d].pc = "findDriver",
                                  ![d].ride[1].status = "accepted",
                                  ![d].ride[1].driverId = d]
            /\ UNCHANGED <<emitted, received>>
    /\ UNCHANGED <<sequence, rideDb, rides, processingRides, activeDriverSockets,
                   bk, uniqueIndex, recording, presenceVars, epoch, overlap, removals, inRoom,
                   loc, rideEvents>>

\* socket.js:677 answered by the store: the driver's document, or null
AcceptFindDriver(d) ==
    /\ acc[d].pc = "findDriver"
    /\ \E mobile \in {"phone", "N/A"} :
            acc' = [acc EXCEPT ![d].pc = "findDriverDone", ![d].driverMobile = mobile]
    /\ UNCHANGED <<sequence, rideDb, rides, processingRides, activeDriverSockets,
                   emitted, bk, uniqueIndex, recording, presenceVars, riderVars, epoch, overlap>>

\* socket.js:677 rejects, 800-810 runs
AcceptFindDriverFails(d) ==
    /\ acc[d].pc = "findDriver"
    /\ acc' = [acc EXCEPT ![d] = FinishedAccept(@, Append(@.acks, ServerError))]
    /\ UNCHANGED <<sequence, rideDb, rides, processingRides, activeDriverSockets,
                   emitted, bk, uniqueIndex, recording, presenceVars, riderVars, epoch, overlap>>

\* socket.js:689-695
EnsuredOtps(o) ==
    IF o = NoOtp THEN { NumToString(r) : r \in RandomOtps } ELSE { o }

\* socket.js:680-698: driverMobile, the otp is ensured, ride.save() is issued
AcceptAfterFindDriver(d) ==
    /\ acc[d].pc = "findDriverDone"
    /\ \E o \in EnsuredOtps(acc[d].ride[1].otp) :
            acc' = [acc EXCEPT ![d].pc = "saveRide", ![d].ride[1].otp = o]
    /\ UNCHANGED <<sequence, rideDb, rides, processingRides, activeDriverSockets,
                   emitted, bk, uniqueIndex, recording, presenceVars, riderVars, epoch, overlap>>

\* What ride.save() writes: the modified paths of the local document, into
\* the stored document with the same _id, whatever that document holds now
SavedOver(r, local) ==
    [r EXCEPT !.status = local.status, !.driverId = local.driverId,
              !.otp = IF r.otp = NoOtp THEN local.otp ELSE r.otp]

\* socket.js:698 applied by the store
AcceptRideSave(d) ==
    /\ acc[d].pc = "saveRide"
    /\ rideDb' = { IF r.docId = acc[d].ride[1].docId
                   THEN SavedOver(r, acc[d].ride[1]) ELSE r : r \in rideDb }
    /\ acc' = [acc EXCEPT ![d].pc = "saveRideDone"]
    /\ UNCHANGED <<sequence, rides, processingRides, activeDriverSockets,
                   emitted, bk, uniqueIndex, recording, presenceVars, riderVars, epoch, overlap>>

\* Faulty variant: the write is applied although the save is reported failed
AcceptRideSaveFailsAfterWrite(d) ==
    /\ acc[d].pc = "saveRide"
    /\ rideDb' = { IF r.docId = acc[d].ride[1].docId
                   THEN SavedOver(r, acc[d].ride[1]) ELSE r : r \in rideDb }
    /\ acc' = [acc EXCEPT ![d] = FinishedAccept(@, Append(@.acks, ServerError))]
    /\ UNCHANGED <<sequence, rides, processingRides, activeDriverSockets,
                   emitted, bk, uniqueIndex, recording, presenceVars, riderVars, epoch, overlap>>


\* socket.js:698 rejects, 800-810 runs
AcceptRideSaveFails(d) ==
    /\ acc[d].pc = "saveRide"
    /\ acc' = [acc EXCEPT ![d] = FinishedAccept(@, Append(@.acks, ServerError))]
    /\ UNCHANGED <<sequence, rideDb, rides, processingRides, activeDriverSockets,
                   emitted, bk, uniqueIndex, recording, presenceVars, riderVars, epoch, overlap>>

\* callback(driverData) (socket.js:702-724): success, the ride, its otp and status
DriverData(d) ==
    Ack(TRUE, acc[d].ride[1].status, acc[d].ride[1].RAID_ID, acc[d].ride[1].otp)

\* socket.js:699-735: the driver is acknowledged, the rider's room is told,
\* fetchSockets is issued
AcceptAfterSave(d) ==
    /\ acc[d].pc = "saveRideDone"
    /\ acc' = [acc EXCEPT ![d].pc = "fetchSockets",
                          ![d].acks = Append(@, DriverData(d))]
    /\ Emit(AcceptEvent(d, "rideAccepted", "userRoom"))
    /\ Deliver(RoomMembers(acc[d].ride[1].user),
               <<AcceptEvent(d, "rideAccepted", "userRoom")>>)
    /\ UNCHANGED <<sequence, rideDb, rides, processingRides, activeDriverSockets,
                   bk, uniqueIndex, recording, presenceVars, epoch, overlap, removals, inRoom,
                   loc, rideEvents>>

\* Faulty variant: the entry is left as it was
OnRideSkipped(registry, d) == registry


\* socket.js:790-796
OnRide(registry, d) ==
    IF d \in DOMAIN registry
    THEN [registry EXCEPT ![d].status = "onRide", ![d].isOnline = TRUE]
    ELSE registry

\* socket.js:735-798: the rider's sockets are told one by one, everyone is told,
\* the backup timer is set, the driver gets the rider's data on its socket or
\* in its room, the other drivers are told, the registry entry goes onRide
AcceptAfterFetchSockets(d) ==
    /\ acc[d].pc = "fetchSockets"
    /\ \E driverSocket \in BOOLEAN :
            emitted' = emitted (+) BagOf(
                [i \in 1..Cardinality(RoomMembers(acc[d].ride[1].user)) |->
                    AcceptEvent(d, "rideAccepted", "userSocket")]
                \o << AcceptEvent(d, "rideAcceptedGlobal", "all"),
                      AcceptEvent(d, "userDataForDriver",
                                  IF driverSocket THEN "driverSocket" ELSE "driverRoom"),
                      RideAlreadyAccepted(d, acc[d].rideId) >>)
    /\ received' = [k \in Conns |->
            IF k \in inRoom
            THEN received[k] \cup Range(
                    (IF k \in RoomMembers(acc[d].ride[1].user)
                     THEN <<AcceptEvent(d, "rideAccepted", "userSocket")>> ELSE <<>>)
                    \o << AcceptEvent(d, "rideAcceptedGlobal", "all"),
                          RideAlreadyAccepted(d, acc[d].rideId) >>)
            ELSE received[k]]
    /\ activeDriverSockets' = OnRide(activeDriverSockets, d)
    /\ acc' = [acc EXCEPT ![d].pc = "done", ![d].timer = TRUE]
    /\ UNCHANGED <<sequence, rideDb, rides, processingRides, bk, uniqueIndex,
                   recording, presenceVars, epoch, overlap, removals, inRoom, loc, rideEvents>>

\* socket.js:735 rejects, 800-810 runs: callback is invoked again
AcceptFetchSocketsFails(d) ==
    /\ acc[d].pc = "fetchSockets"
    /\ acc' = [acc EXCEPT ![d] = FinishedAccept(@, Append(@.acks, ServerError))]
    /\ UNCHANGED <<sequence, rideDb, rides, processingRides, activeDriverSockets,
                   emitted, bk, uniqueIndex, recording, presenceVars, riderVars, epoch, overlap>>

\* socket.js:751-754: the timer fires
AcceptBackupTimer(d) ==
    /\ acc[d].timer
    /\ Emit(AcceptEvent(d, "rideAccepted", "userRoom"))
    /\ Deliver(RoomMembers(acc[d].ride[1].user),
               <<AcceptEvent(d, "rideAccepted", "userRoom")>>)
    /\ acc' = [acc EXCEPT ![d] = FinishedAccept([@ EXCEPT !.timer = FALSE], @.acks)]
    /\ UNCHANGED <<sequence, rideDb, rides, processingRides, activeDriverSockets,
                   bk, uniqueIndex, recording, presenceVars, epoch, overlap, removals, inRoom,
                   loc, rideEvents>>

----------------------------------------------------------------------------
(* The required-field check's answer (socket.js:436-446) *)

RequiredFields == {"userId", "customerId", "userName", "pickup", "drop"}

\* The required fields for which !field holds
MissingFields(data) ==
    { f \in RequiredFields :
        IF f = "customerId" THEN FalsyString(data[f]) ELSE Falsy(data[f]) }

\* The words of a message.  "Missing required fields" is the literal of
\* socket.js:443; no other message of the model is read word by word.
MessageWords(message) ==
    IF message = "Missing required fields"
    THEN <<"Missing", "required", "fields">>
    ELSE <<message>>


----------------------------------------------------------------------------
(* The rider's connections and room.  The stored ride was booked by one    *)
(* rider; joinRoom (socket.js:616-626) joins a connection of that rider to *)
(* the room named by the rider's userId, a disconnect takes it out.        *)

\* socket.js:616-626: joinRoom with the rider's userId
JoinRoom(k) ==
    /\ k \notin inRoom
    /\ inRoom' = inRoom \cup {k}
    /\ UNCHANGED <<sequence, rideDb, rides, processingRides, activeDriverSockets,
                   emitted, bk, acc, uniqueIndex, recording, presenceVars, epoch, overlap,
                   removals, received, loc, rideEvents>>

\* The rider's connection drops: socket.io takes it out of every room
LeaveRoom(k) ==
    /\ k \in inRoom
    /\ inRoom' = inRoom \ {k}
    /\ UNCHANGED <<sequence, rideDb, rides, processingRides, activeDriverSockets,
                   emitted, bk, acc, uniqueIndex, recording, presenceVars, epoch, overlap,
                   removals, received, loc, rideEvents>>

----------------------------------------------------------------------------
(* rejectRide (socket.js:853-882) and completeRide (885-929): synchronous  *)
(* handlers, one step each.  Driver d's connection sends the event with    *)
(* its own driverId.  The timestamps and the distance written into the     *)
(* working copy are read by no handler and are left out of it.             *)

\* The entry's status goes back to Live (socket.js:865-869, 906-910)
BackToLive(registry, d) ==
    IF d \in DOMAIN registry
    THEN [registry EXCEPT ![d].status = "Live", ![d].isOnline = TRUE]
    ELSE registry

\* socket.emit("driverStatusUpdate", {driverId, status: "Live"}) (socket.js:871, 912)
DriverStatusUpdate(d) ==
    [driverId |-> d, event |-> "driverStatusUpdate", to |-> "driverSocket", sender |-> d]

\* The events sent to driver d's own connection when its entry goes back to Live
StatusUpdates(d) ==
    IF d \in DOMAIN activeDriverSockets THEN <<DriverStatusUpdate(d)>> ELSE <<>>

\* Faulty variant: the driver's entry is left as it was
RejectRideKeepsPresence(d, data) ==
    /\ rideEvents < MaxRideEvents
    /\ rideEvents' = rideEvents + 1
    /\ IF data.present /\ data.rideId \in DOMAIN rides
       THEN /\ rides' = [rides EXCEPT ![data.rideId].status = "rejected"]
            /\ emitted' = emitted (+) BagOf(StatusUpdates(d))
       ELSE UNCHANGED <<rides, emitted>>
    /\ UNCHANGED <<sequence, rideDb, processingRides, activeDriverSockets, bk, acc,
                   uniqueIndex, recording, presenceVars, epoch, overlap, removals, inRoom,
                   received, loc>>


\* socket.js:853-882.  Without a payload the destructuring throws inside the try.
RejectRide(d, data) ==
    /\ rideEvents < MaxRideEvents
    /\ rideEvents' = rideEvents + 1
    /\ IF data.present /\ data.rideId \in DOMAIN rides
       THEN /\ rides' = [rides EXCEPT ![data.rideId].status = "rejected"]
            /\ activeDriverSockets' = BackToLive(activeDriverSockets, d)
            /\ emitted' = emitted (+) BagOf(StatusUpdates(d))
       ELSE UNCHANGED <<rides, activeDriverSockets, emitted>>
    /\ UNCHANGED <<sequence, rideDb, processingRides, bk, acc, uniqueIndex,
                   recording, presenceVars, epoch, overlap, removals, inRoom, received, loc>>

\* The payload of completeRide; hasDistance = FALSE: distance is not a number
CompleteData(id, hasDistance, distance) ==
    [present |-> TRUE, rideId |-> id, hasDistance |-> hasDistance, distance |-> distance]

\* Faulty variant: the event goes to every connection
RideCompletedToAll(id, distance, userId) ==
    [rideId |-> id, event |-> "rideCompleted", to |-> "all",
     distance |-> distance, room |-> userId]


\* io.to(userId).emit("rideCompleted", {rideId, distance}) (socket.js:900-903)
RideCompleted(id, distance, userId) ==
    [rideId |-> id, event |-> "rideCompleted", to |-> "userRoom",
     distance |-> distance, room |-> userId]

\* socket.js:885-929.  distance.toFixed (line 891) throws unless distance is a
\* number; the catch logs and nothing else happens.
CompleteRide(d, data) ==
    /\ rideEvents < MaxRideEvents
    /\ rideEvents' = rideEvents + 1
    /\ IF data.present /\ data.hasDistance /\ data.rideId \in DOMAIN rides
       THEN /\ rides' = [rides EXCEPT ![data.rideId].status = "completed"]
            /\ activeDriverSockets' = BackToLive(activeDriverSockets, d)
            /\ emitted' = emitted (+) BagOf(
                    <<RideCompleted(data.rideId, data.distance, rides[data.rideId].userId)>>
                    \o StatusUpdates(d))
            /\ Deliver(RoomMembers(rides[data.rideId].userId),
                       <<RideCompleted(data.rideId, data.distance, rides[data.rideId].userId)>>)
            /\ removals' = removals (+) SetToBag({data.rideId})
       ELSE UNCHANGED <<rides, activeDriverSockets, emitted, received, removals>>
    /\ UNCHANGED <<sequence, rideDb, processingRides, bk, acc, uniqueIndex,
                   recording, presenceVars, epoch, overlap, inRoom, loc>>

\* socket.js:919-922: a removal timer fires, delete rides[rideId]
RemoveRide(id) ==
    /\ BagIn(id, removals)
    /\ removals' = removals (-) SetToBag({id})
    /\ rides' = [x \in DOMAIN rides \ {id} |-> rides[x]]
    /\ UNCHANGED <<sequence, rideDb, processingRides, activeDriverSockets, emitted,
                   bk, acc, uniqueIndex, recording, presenceVars, epoch, overlap, inRoom,
                   received, loc, rideEvents>>

----------------------------------------------------------------------------
(* userLocationUpdate (socket.js:814-850), sent by a connection of the rider *)

IdleLocation == [pc |-> "idle", rideId |-> NoId, ride |-> NoDoc]

\* driverSocket.emit or io.to(`driver_${ride.driverId}`).emit of
\* "userLiveLocationUpdate" (socket.js:829-844)
UserLiveLocationUpdate(id, addressees, d) ==
    [rideId |-> id, event |-> "userLiveLocationUpdate", to |-> addressees,
     toDriver |-> d]

\* socket.js:814-819: without a payload the destructuring throws inside the
\* try; otherwise Ride.findOne is issued
LocationUpdateStart(data) ==
    /\ loc.pc = "idle"
    /\ IF data.present
       THEN loc' = [loc EXCEPT !.pc = "findRide", !.rideId = data.rideId]
       ELSE loc' = [loc EXCEPT !.pc = "done"]
    /\ UNCHANGED <<sequence, rideDb, rides, processingRides, activeDriverSockets,
                   emitted, bk, acc, uniqueIndex, recording, presenceVars, epoch, overlap,
                   removals, inRoom, received, rideEvents>>

\* socket.js:819 answered by the store
LocationFindRide ==
    /\ loc.pc = "findRide"
    /\ \E found \in FindRideResults(loc.rideId) :
            loc' = [loc EXCEPT !.pc = "findRideDone", !.ride = found]
    /\ UNCHANGED <<sequence, rideDb, rides, processingRides, activeDriverSockets,
                   emitted, bk, acc, uniqueIndex, recording, presenceVars, epoch, overlap,
                   removals, inRoom, received, rideEvents>>

\* socket.js:819 rejects, 847-849 logs
LocationFindRideFails ==
    /\ loc.pc = "findRide"
    /\ loc' = [loc EXCEPT !.pc = "done"]
    /\ UNCHANGED <<sequence, rideDb, rides, processingRides, activeDriverSockets,
                   emitted, bk, acc, uniqueIndex, recording, presenceVars, epoch, overlap,
                   removals, inRoom, received, rideEvents>>

\* socket.js:820-846: nothing without a ride or a driverId; otherwise the
\* location goes to the first connection whose driverId is the ride's, or,
\* when there is none, to that driver's room
LocationAfterFindRide ==
    /\ loc.pc = "findRideDone"
    /\ IF loc.ride = NoDoc \/ loc.ride[1].driverId = NoDriver
       THEN UNCHANGED emitted
       ELSE \E addressees \in {"driverSocket", "driverRoom"} :
                Emit(UserLiveLocationUpdate(loc.rideId, addressees, loc.ride[1].driverId))
    /\ loc' = [loc EXCEPT !.pc = "done", !.ride = NoDoc]
    /\ UNCHANGED <<sequence, rideDb, rides, processingRides, activeDriverSockets,
                   bk, acc, uniqueIndex, recording, presenceVars, epoch, overlap,
                   removals, inRoom, received, rideEvents>>


----------------------------------------------------------------------------
(* The presence registry: registerDriver (socket.js:279-346),              *)
(* requestNearbyDrivers (349-388), driverHeartbeat (932-941), disconnect   *)
(* (944-971) and the cleanup timer (975-993).  A registry entry here has   *)
(* every field registerDriver stores.  Coordinates are opaque values: no   *)
(* handler computes with them.                                             *)

StaleAfter == 300000    \* const fiveMinutesAgo = now - 300000

\* The clock advances in steps of half the retention window
ClockStep == StaleAfter \div 2

NotMarked == 0 - 1

\* A connection before registerDriver: no socket.driverId, in no room
NewSocket ==
    [driverId |-> NoDriver, connected |-> TRUE, allDrivers |-> FALSE, driverRooms |-> {}]

\* !latitude, !longitude: true of undefined and of the number 0
FalsyCoordinate(x) == x \in {Missing, "0"}

\* A location that is present but is no coordinate
OutOfRange == "999"

\* The payload of registerDriver; driverId NoDriver: none given
RegisterData(d, latitude, longitude, vehicleType) ==
    [driverId |-> d, latitude |-> latitude, longitude |-> longitude,
     vehicleType |-> vehicleType, driverName |-> "driver"]

\* The parameter default vehicleType = "taxi" (socket.js:279)
VehicleTypeOf(data) ==
    IF data.vehicleType = Missing THEN "taxi" ELSE data.vehicleType

\* The document saveDriverLocationToDB builds (socket.js:117-125), without its
\* timestamp, which nothing reads
LocationDoc(d, name, latitude, longitude, vehicleType, status) ==
    [status |-> status, driverId |-> d, latitude |-> latitude,
     longitude |-> longitude, vehicleType |-> vehicleType, driverName |-> name]

NoLocationDoc == LocationDoc(NoDriver, Missing, Missing, Missing, Missing, Missing)

IdleRegister == [doc |-> NoLocationDoc, pc |-> "idle"]

\* What the driverLiveLocationUpdate handler reads of driverData after its await
\* (socket.js:246-247)
Held(entry) == [status |-> entry.status, vehicleType |-> entry.vehicleType]

\* A location handler's locals.  driverData (socket.js:229) is a reference to
\* the registry's object: `detached` tells that the registry has let go of the
\* object since, `held` what the object held at that moment.
IdleUpdate ==
    [doc |-> NoLocationDoc, pc |-> "idle", held |-> Held(NoLocationDoc),
     detached |-> FALSE]

\* The objects of the drivers in ds leave the registry (socket.js:302, 982):
\* the handlers that hold one keep it as it is now
Detached(ds) ==
    [k \in DriverConns |->
        IF /\ upd[k].pc \in {"liveSave", "liveSaved"}
           /\ ~upd[k].detached
           /\ upd[k].doc.driverId \in ds
        THEN [upd[k] EXCEPT !.held = Held(activeDriverSockets[upd[k].doc.driverId]),
                            !.detached = TRUE]
        ELSE upd[k]]

\* activeDriverSockets.set(driverId, {...}) (socket.js:302-311)
RegistryEntry(k, data) ==
    [status |-> "Live", driverId |-> data.driverId, isOnline |-> TRUE,
     vehicleType |-> VehicleTypeOf(data), driverName |-> data.driverName,
     socketId |-> k,
     location |-> [latitude |-> data.latitude, longitude |-> data.longitude],
     lastUpdate |-> now]

\* What a driver list shows of an entry (socket.js:140-149, 358-367)
Snapshot(entry) ==
    [status |-> entry.status, driverId |-> entry.driverId, name |-> entry.driverName,
     vehicleType |-> entry.vehicleType,
     location |-> [coordinates |-> <<entry.location.longitude, entry.location.latitude>>],
     lastUpdate |-> entry.lastUpdate]

\* Faulty variant: the list shows every entry
ListAll(registry) ==
    { Snapshot(registry[d]) : d \in DOMAIN registry }


\* Array.from(activeDriverSockets.values()).filter(driver => driver.isOnline).map(...)
ListOnline(registry) ==
    { Snapshot(registry[d]) : d \in { x \in DOMAIN registry : registry[x].isOnline } }

\* io.emit("driverLocationsUpdate", { drivers }) (socket.js:137-152)
DriverLocationsUpdate(registry) ==
    [event |-> "driverLocationsUpdate", to |-> "all", drivers |-> ListOnline(registry)]

\* socket.emit("driverRegistrationConfirmed", {success: true, ...}) (socket.js:329-332)
DriverRegistrationConfirmed(k) ==
    [success |-> TRUE, event |-> "driverRegistrationConfirmed", to |-> "driverSocket",
     conn |-> k]

\* socket.js:288-296: the two guards
RegistrationRefused(data) ==
    \/ data.driverId = NoDriver
    \/ FalsyCoordinate(data.latitude)
    \/ FalsyCoordinate(data.longitude)

\* socket.js:279-323: the guards; the connection takes the driver's identity,
\* the entry is stored, the rooms are joined, the location save is issued
RegisterDriverStart(k, data) ==
    /\ reg[k].pc = "idle"
    /\ driverSockets[k].connected
    /\ IF RegistrationRefused(data)
       THEN /\ reg' = [reg EXCEPT ![k].pc = "done"]
            /\ UNCHANGED <<activeDriverSockets, driverSockets, markedOffline, upd>>
       ELSE /\ upd' = Detached({data.driverId} \cap DOMAIN activeDriverSockets)
            /\ driverSockets' = [driverSockets EXCEPT
                    ![k].driverId = data.driverId,
                    ![k].allDrivers = TRUE,
                    ![k].driverRooms = @ \cup {data.driverId}]
            /\ activeDriverSockets' =
                    [x \in DOMAIN activeDriverSockets \cup {data.driverId} |->
                        IF x = data.driverId THEN RegistryEntry(k, data)
                        ELSE activeDriverSockets[x]]
            /\ markedOffline' = [markedOffline EXCEPT ![data.driverId] = NotMarked]
            /\ reg' = [reg EXCEPT ![k] =
                    [doc |-> LocationDoc(data.driverId, data.driverName, data.latitude,
                                         data.longitude, VehicleTypeOf(data), "Live"),
                     pc |-> "save"]]
    /\ UNCHANGED <<sequence, rideDb, rides, processingRides, emitted, bk, acc,
                   uniqueIndex, recording, epoch, overlap, riderVars, now,
                   driverLocations, pendingSaves>>

\* socket.js:127 applied by the store
RegisterSave(k) ==
    /\ reg[k].pc = "save"
    /\ driverLocations' = driverLocations \cup {reg[k].doc}
    /\ reg' = [reg EXCEPT ![k].pc = "saveDone"]
    /\ UNCHANGED <<sequence, rideDb, rides, processingRides, activeDriverSockets,
                   emitted, bk, acc, uniqueIndex, recording, epoch, overlap,
                   riderVars, now, driverSockets, pendingSaves, upd, markedOffline>>

\* socket.js:127 rejects: saveDriverLocationToDB logs and returns false (130-133)
RegisterSaveFails(k) ==
    /\ reg[k].pc = "save"
    /\ reg' = [reg EXCEPT ![k].pc = "saveDone"]
    /\ UNCHANGED <<sequence, rideDb, rides, processingRides, activeDriverSockets,
                   emitted, bk, acc, uniqueIndex, recording, epoch, overlap,
                   riderVars, now, driverSockets, driverLocations, pendingSaves,
                   upd, markedOffline>>

\* socket.js:325-335: the driver list goes to everyone, the confirmation to
\* the calling connection
RegisterAfterSave(k) ==
    /\ reg[k].pc = "saveDone"
    /\ emitted' = emitted (+) BagOf(<<DriverLocationsUpdate(activeDriverSockets),
                                      DriverRegistrationConfirmed(k)>>)
    /\ reg' = [reg EXCEPT ![k] = [doc |-> NoLocationDoc, pc |-> "done"]]
    /\ UNCHANGED <<sequence, rideDb, rides, processingRides, activeDriverSockets,
                   bk, acc, uniqueIndex, recording, epoch, overlap, riderVars, now,
                   driverSockets, driverLocations, pendingSaves, upd, markedOffline>>

\* socket.emit("nearbyDriversResponse", { drivers }) (socket.js:383)
NearbyDriversResponse(c, registry) ==
    [event |-> "nearbyDriversResponse", to |-> "userSocket",
     drivers |-> ListOnline(registry), requester |-> c]

\* Connection c has been answered
Answered(c) ==
    \E e \in BagToSet(emitted) : e.event = "nearbyDriversResponse" /\ e.requester = c

\* socket.js:349-388, sent once by the rider's connection c
RequestNearbyDrivers(c) ==
    /\ ~Answered(c)
    /\ Emit(NearbyDriversResponse(c, activeDriverSockets))
    /\ UNCHANGED <<sequence, rideDb, rides, processingRides, activeDriverSockets,
                   bk, acc, uniqueIndex, recording, epoch, overlap, riderVars,
                   presenceVars>>

\* status || "Live" (socket.js:190, 201, 217)
StatusOf(data) == IF data.status = Missing THEN "Live" ELSE data.status

\* The payload of driverLocationUpdate (socket.js:181)
UpdateData(d, latitude, longitude, status) ==
    [status |-> status, driverId |-> d, latitude |-> latitude, longitude |-> longitude]

\* io.emit("driverLiveLocationUpdate", {...}) (socket.js:197-204, 243-250),
\* without its timestamp
DriverLiveLocationUpdate(d, lat, lng, status, vehicleType) ==
    [status |-> status, driverId |-> d, event |-> "driverLiveLocationUpdate",
     to |-> "all", vehicleType |-> vehicleType, lat |-> lat, lng |-> lng]

\* socket.js:186-195: the entry of a known driver moves
Moved(registry, data) ==
    IF data.driverId \in DOMAIN registry
    THEN [registry EXCEPT
            ![data.driverId].status = StatusOf(data),
            ![data.driverId].isOnline = TRUE,
            ![data.driverId].location =
                [latitude |-> data.latitude, longitude |-> data.longitude],
            ![data.driverId].lastUpdate = now]
    ELSE registry

\* driverData?.driverName || "Unknown" (socket.js:211, 214)
NameOf(registry, d) ==
    IF d \in DOMAIN registry THEN registry[d].driverName ELSE "Unknown"

\* An entry that is online again is no longer marked offline
Unmarked(d) ==
    IF d \in DOMAIN activeDriverSockets
    THEN [markedOffline EXCEPT ![d] = NotMarked]
    ELSE markedOffline

\* socket.js:179-218, sent on connection k: the entry moves if there is one,
\* everyone is told, the location save is issued
DriverLocationUpdateStart(k, data) ==
    /\ upd[k].pc = "idle"
    /\ driverSockets[k].connected
    /\ activeDriverSockets' = Moved(activeDriverSockets, data)
    /\ markedOffline' = Unmarked(data.driverId)
    /\ Emit(DriverLiveLocationUpdate(data.driverId, data.latitude, data.longitude,
                                     StatusOf(data), "taxi"))
    /\ upd' = [upd EXCEPT ![k] =
            [doc |-> LocationDoc(data.driverId,
                                 NameOf(Moved(activeDriverSockets, data), data.driverId),
                                 data.latitude, data.longitude, "taxi", StatusOf(data)),
             pc |-> "save", held |-> Held(NoLocationDoc), detached |-> FALSE]]
    /\ UNCHANGED <<sequence, rideDb, rides, processingRides, bk, acc, uniqueIndex,
                   recording, epoch, overlap, riderVars, now, driverSockets,
                   driverLocations, pendingSaves, reg>>

\* socket.js:127 applied by the store; the handler ends (socket.js:219)
UpdateSave(k) ==
    /\ upd[k].pc = "save"
    /\ driverLocations' = driverLocations \cup {upd[k].doc}
    /\ upd' = [upd EXCEPT ![k].doc = NoLocationDoc, ![k].pc = "done"]
    /\ UNCHANGED <<sequence, rideDb, rides, processingRides, activeDriverSockets,
                   emitted, bk, acc, uniqueIndex, recording, epoch, overlap,
                   riderVars, now, driverSockets, pendingSaves, reg, markedOffline>>

\* socket.js:127 rejects: saveDriverLocationToDB logs and returns false (130-133)
UpdateSaveFails(k) ==
    /\ upd[k].pc = "save"
    /\ upd' = [upd EXCEPT ![k].doc = NoLocationDoc, ![k].pc = "done"]
    /\ UNCHANGED <<sequence, rideDb, rides, processingRides, activeDriverSockets,
                   emitted, bk, acc, uniqueIndex, recording, epoch, overlap,
                   riderVars, now, driverSockets, driverLocations, pendingSaves,
                   reg, markedOffline>>

\* The payload of driverLiveLocationUpdate (socket.js:227)
LiveData(d, lat, lng) ==
    [driverId |-> d, driverName |-> "driver", lat |-> lat, lng |-> lng]

\* socket.js:227-240, sent on connection k: the entry of a known driver moves
\* and the location save is issued; for an unknown driver nothing happens
LiveLocationStart(k, data) ==
    /\ upd[k].pc = "idle"
    /\ driverSockets[k].connected
    /\ IF data.driverId \in DOMAIN activeDriverSockets
       THEN /\ activeDriverSockets' = [activeDriverSockets EXCEPT
                    ![data.driverId].isOnline = TRUE,
                    ![data.driverId].location =
                        [latitude |-> data.lat, longitude |-> data.lng],
                    ![data.driverId].lastUpdate = now]
            /\ upd' = [upd EXCEPT ![k] =
                    [doc |-> LocationDoc(data.driverId, data.driverName, data.lat,
                                         data.lng,
                                         activeDriverSockets[data.driverId].vehicleType,
                                         "Live"),
                     pc |-> "liveSave", held |-> Held(NoLocationDoc),
                     detached |-> FALSE]]
       ELSE /\ upd' = [upd EXCEPT ![k].pc = "done"]
            /\ UNCHANGED activeDriverSockets
    /\ markedOffline' = Unmarked(data.driverId)
    /\ UNCHANGED <<sequence, rideDb, rides, processingRides, emitted, bk, acc,
                   uniqueIndex, recording, epoch, overlap, riderVars, now,
                   driverSockets, driverLocations, pendingSaves, reg>>

\* socket.js:127 applied by the store
LiveSave(k) ==
    /\ upd[k].pc = "liveSave"
    /\ driverLocations' = driverLocations \cup {upd[k].doc}
    /\ upd' = [upd EXCEPT ![k].pc = "liveSaved"]
    /\ UNCHANGED <<sequence, rideDb, rides, processingRides, activeDriverSockets,
                   emitted, bk, acc, uniqueIndex, recording, epoch, overlap,
                   riderVars, now, driverSockets, pendingSaves, reg, markedOffline>>

\* socket.js:127 rejects: saveDriverLocationToDB logs and returns false (130-133)
LiveSaveFails(k) ==
    /\ upd[k].pc = "liveSave"
    /\ upd' = [upd EXCEPT ![k].pc = "liveSaved"]
    /\ UNCHANGED <<sequence, rideDb, rides, processingRides, activeDriverSockets,
                   emitted, bk, acc, uniqueIndex, recording, epoch, overlap,
                   riderVars, now, driverSockets, driverLocations, pendingSaves,
                   reg, markedOffline>>

\* driverData as the handler sees it after the await
HeldEntry(k) ==
    IF upd[k].detached THEN upd[k].held
    ELSE Held(activeDriverSockets[upd[k].doc.driverId])

\* socket.js:243-252: everyone is told, with the status and the vehicle type
\* driverData holds now
LiveAfterSave(k) ==
    /\ upd[k].pc = "liveSaved"
    /\ Emit(DriverLiveLocationUpdate(upd[k].doc.driverId, upd[k].doc.latitude,
                                     upd[k].doc.longitude, HeldEntry(k).status,
                                     HeldEntry(k).vehicleType))
    /\ upd' = [upd EXCEPT ![k] = [IdleUpdate EXCEPT !.pc = "done"]]
    /\ UNCHANGED <<sequence, rideDb, rides, processingRides, activeDriverSockets,
                   bk, acc, uniqueIndex, recording, epoch, overlap, riderVars, now,
                   driverSockets, driverLocations, pendingSaves, reg, markedOffline>>


\* socket.js:932-941, sent on connection k with driverId d
DriverHeartbeat(k, d) ==
    /\ driverSockets[k].connected
    /\ IF d \in DOMAIN activeDriverSockets
       THEN /\ activeDriverSockets' = [activeDriverSockets EXCEPT
                    ![d].lastUpdate = now, ![d].isOnline = TRUE]
            /\ markedOffline' = [markedOffline EXCEPT ![d] = NotMarked]
       ELSE UNCHANGED <<activeDriverSockets, markedOffline>>
    /\ UNCHANGED <<sequence, rideDb, rides, processingRides, emitted, bk, acc,
                   uniqueIndex, recording, epoch, overlap, riderVars, now,
                   driverSockets, driverLocations, pendingSaves, reg, upd>>

\* Faulty variant: the entry gets the status but stays online
MarkedOfflineStaysOnline(registry, d) ==
    IF d \in DOMAIN registry
    THEN [registry EXCEPT ![d].status = "Offline"]
    ELSE registry


\* The entry of d after disconnect (socket.js:953-956)
MarkedOffline(registry, d) ==
    IF d \in DOMAIN registry
    THEN [registry EXCEPT ![d].status = "Offline", ![d].isOnline = FALSE]
    ELSE registry

\* The save disconnect issues without awaiting it (socket.js:958-965)
OfflineSaves(k) ==
    IF driverSockets[k].driverId \in DOMAIN activeDriverSockets
    THEN <<LocationDoc(driverSockets[k].driverId,
                       activeDriverSockets[driverSockets[k].driverId].driverName,
                       activeDriverSockets[driverSockets[k].driverId].location.latitude,
                       activeDriverSockets[driverSockets[k].driverId].location.longitude,
                       activeDriverSockets[driverSockets[k].driverId].vehicleType,
                       "Offline")>>
    ELSE <<>>

\* socket.js:944-971: connection k drops; socket.io has taken it out of its rooms
Disconnect(k) ==
    /\ driverSockets[k].connected
    /\ driverSockets' = [driverSockets EXCEPT ![k].connected = FALSE,
                                              ![k].allDrivers = FALSE,
                                              ![k].driverRooms = {}]
    /\ IF driverSockets[k].driverId # NoDriver
       THEN /\ activeDriverSockets' =
                    MarkedOffline(activeDriverSockets, driverSockets[k].driverId)
            /\ pendingSaves' = pendingSaves (+) BagOf(OfflineSaves(k))
            /\ markedOffline' =
                    IF driverSockets[k].driverId \in DOMAIN activeDriverSockets
                    THEN [markedOffline EXCEPT ![driverSockets[k].driverId] = now]
                    ELSE markedOffline
            /\ Emit(DriverLocationsUpdate(
                    MarkedOffline(activeDriverSockets, driverSockets[k].driverId)))
       ELSE UNCHANGED <<activeDriverSockets, pendingSaves, markedOffline, emitted>>
    /\ UNCHANGED <<sequence, rideDb, rides, processingRides, bk, acc, uniqueIndex,
                   recording, epoch, overlap, riderVars, now, driverLocations,
                   reg, upd>>

\* socket.js:127 of an un-awaited save, applied by the store
PendingSaveApplied ==
    /\ \E doc \in BagToSet(pendingSaves) :
            /\ pendingSaves' = pendingSaves (-) SetToBag({doc})
            /\ driverLocations' = driverLocations \cup {doc}
    /\ UNCHANGED <<sequence, rideDb, rides, processingRides, activeDriverSockets,
                   emitted, bk, acc, uniqueIndex, recording, epoch, overlap,
                   riderVars, now, driverSockets, reg, upd, markedOffline>>

\* socket.js:127 of an un-awaited save rejects (130-133)
PendingSaveFails ==
    /\ \E doc \in BagToSet(pendingSaves) :
            pendingSaves' = pendingSaves (-) SetToBag({doc})
    /\ UNCHANGED <<sequence, rideDb, rides, processingRides, activeDriverSockets,
                   emitted, bk, acc, uniqueIndex, recording, epoch, overlap,
                   riderVars, now, driverSockets, driverLocations, reg, upd,
                   markedOffline>>

\* Time passes
Tick ==
    /\ now < MaxTicks * ClockStep
    /\ now' = now + ClockStep
    /\ UNCHANGED <<sequence, rideDb, rides, processingRides, activeDriverSockets,
                   emitted, bk, acc, uniqueIndex, recording, epoch, overlap,
                   riderVars, driverSockets, driverLocations, pendingSaves, reg,
                   upd, markedOffline>>

\* Faulty variant: the age alone decides
StaleByAge(registry) ==
    { d \in DOMAIN registry : registry[d].lastUpdate < now - StaleAfter }


\* The entries one run of the cleanup deletes (socket.js:976-981)
Stale(registry) ==
    { d \in DOMAIN registry :
        ~registry[d].isOnline /\ registry[d].lastUpdate < now - StaleAfter }

\* socket.js:975-993: one run of the cleanup timer
Sweep ==
    /\ activeDriverSockets' =
            [d \in DOMAIN activeDriverSockets \ Stale(activeDriverSockets) |->
                activeDriverSockets[d]]
    /\ markedOffline' = [d \in DriverIds |->
            IF d \in Stale(activeDriverSockets) THEN NotMarked ELSE markedOffline[d]]
    /\ IF Stale(activeDriverSockets) # {}
       THEN Emit(DriverLocationsUpdate(
                [d \in DOMAIN activeDriverSockets \ Stale(activeDriverSockets) |->
                    activeDriverSockets[d]]))
       ELSE UNCHANGED emitted
    /\ upd' = Detached(Stale(activeDriverSockets))
    /\ UNCHANGED <<sequence, rideDb, rides, processingRides, bk, acc, uniqueIndex,
                   recording, epoch, overlap, riderVars, now, driverSockets,
                   driverLocations, pendingSaves, reg>>


----------------------------------------------------------------------------
(* Specifications *)

\* Counter values before the first call: no document yet (0), the document
\* testRaidIdModel creates (socket.js:63), and values just below the ceiling.
SequenceStarts == {0, SeqReset, SeqCeiling - 1, SeqCeiling}

InitMemory ==
    /\ processingRides = {}
    /\ emitted = EmptyBag
    /\ bk = [c \in Calls |-> IdleBooking]
    /\ acc = [d \in DriverIds |-> IdleAccept]
    /\ epoch = 0
    /\ overlap = {}
    /\ removals = EmptyBag
    /\ received = [k \in Conns |-> {}]
    /\ loc = IdleLocation
    /\ rideEvents = 0
    /\ now = 0
    /\ driverLocations = {}
    /\ pendingSaves = EmptyBag
    /\ reg = [k \in DriverConns |-> IdleRegister]
    /\ upd = [k \in DriverConns |-> IdleUpdate]
    /\ markedOffline = [d \in DriverIds |-> NotMarked]

InitGen ==
    /\ sequence \in SequenceStarts
    /\ rideDb = {}
    /\ rides = EmptyMap
    /\ inRoom = {}
    /\ driverSockets = [k \in DriverConns |-> NewSocket]
    /\ activeDriverSockets = EmptyMap
    /\ uniqueIndex = TRUE
    /\ recording = TRUE
    /\ InitMemory

NextGen ==
    \E c \in Calls :
        \/ BookRideStart(c, BookingData("u1", "pickup"))   \* the generator reads no payload
        \/ RaidIdIncrement(c)
        \/ RaidIdIncrementFails(c)
        \/ GenAfterIncrement(c)
        \/ RaidIdReset(c)
        \/ RaidIdResetFails(c)
        \/ GenAfterReset(c)

\* The identifier generator alone: bookRide invocations up to the generator's return
SpecGen == InitGen /\ [][NextGen]_vars

\* A ride booked by u2 before the counter last wrapped around
OldRideDoc ==
    [otp |-> <<"4", "3", "2", "1">>, RAID_ID |-> FormatRaidId(SeqReset + 1),
     user |-> "u2", status |-> "pending", driverId |-> NoDriver, docId |-> 0]

\* bookRide is entered with the counter at the ceiling and a ride of the
\* previous round still stored; the collection has the unique index or not
InitBook ==
    /\ sequence = SeqCeiling
    /\ rideDb = {OldRideDoc}
    /\ rides = EmptyMap
    /\ inRoom = {}
    /\ driverSockets = [k \in DriverConns |-> NewSocket]
    /\ activeDriverSockets = EmptyMap
    /\ uniqueIndex \in BOOLEAN
    /\ recording = FALSE
    /\ InitMemory

NextBook ==
    \E c \in Calls :
        \/ \E data \in Payloads : BookRideStart(c, data)
        \/ RaidIdIncrement(c)
        \/ RaidIdIncrementFails(c)
        \/ GenAfterIncrement(c)
        \/ RaidIdReset(c)
        \/ RaidIdResetFails(c)
        \/ GenAfterReset(c)
        \/ BookAfterGenerate(c)
        \/ RideFindExisting(c)
        \/ RideFindExistingFails(c)
        \/ BookAfterFindExisting(c)
        \/ BookValidationFails(c)
        \/ RideSave(c)
        \/ RideSaveDuplicateKey(c)
        \/ RideSaveFails(c)
        \/ BookAfterSave(c)
        \/ RideFindDuplicate(c)
        \/ RideFindDuplicateFails(c)
        \/ BookAfterFindDuplicate(c)

\* bookRide invocations with arbitrary payloads, over a store that may fail
SpecBook == InitBook /\ [][NextBook]_vars


\* The connection of driver d after registerDriver (socket.js:298, 314-315)
RegisteredSocket(d) ==
    [driverId |-> d, connected |-> TRUE, allDrivers |-> TRUE, driverRooms |-> {d}]

\* The entry registerDriver stores (socket.js:302-311)
LiveDriver == [status |-> "Live", isOnline |-> TRUE]

\* rides[rideId] as bookRide left it for OldRideDoc (socket.js:527-533)
OldWorkingCopy ==
    [userId |-> OldRideDoc.user, status |-> "pending", docId |-> OldRideDoc.docId]

\* An id under which nothing is stored
UnknownRaidId == FormatRaidId(SeqReset + 2)

AcceptPayloads ==
    { AcceptData(OldRideDoc.RAID_ID), AcceptData(UnknownRaidId), NoAcceptData }

\* acceptRide is entered with one pending ride booked and any of the drivers registered
InitAccept ==
    /\ sequence = SeqReset + 1
    /\ rideDb = {OldRideDoc}
    /\ rides = (OldRideDoc.RAID_ID :> OldWorkingCopy)
    /\ inRoom = Conns
    /\ \E registered \in SUBSET DriverIds :
            /\ activeDriverSockets = [d \in registered |-> LiveDriver]
            /\ driverSockets = [k \in DriverConns |->
                    IF k \in registered THEN RegisteredSocket(k) ELSE NewSocket]
    /\ uniqueIndex = TRUE
    /\ recording = FALSE
    /\ InitMemory

NextAccept ==
    \E d \in DriverIds, k \in Conns :
        \/ JoinRoom(k)
        \/ LeaveRoom(k)
        \/ \E data \in AcceptPayloads : AcceptRideStart(d, data)
        \/ AcceptFindRide(d)
        \/ AcceptFindRideFails(d)
        \/ AcceptAfterFindRide(d)
        \/ AcceptFindDriver(d)
        \/ AcceptFindDriverFails(d)
        \/ AcceptAfterFindDriver(d)
        \/ AcceptRideSave(d)
        \/ AcceptRideSaveFails(d)
        \/ AcceptAfterSave(d)
        \/ AcceptAfterFetchSockets(d)
        \/ AcceptFetchSocketsFails(d)
        \/ AcceptBackupTimer(d)

\* acceptRide invocations of the drivers, over a store that may fail, while
\* the rider's connections leave and join the rider's room
SpecAccept == InitAccept /\ [][NextAccept]_vars


\* A step of driver d's acceptRide invocation, or its backup timer firing
AcceptStep(d) ==
    \/ AcceptFindRide(d)
    \/ AcceptAfterFindRide(d)
    \/ AcceptFindDriver(d)
    \/ AcceptAfterFindDriver(d)
    \/ AcceptRideSave(d)
    \/ AcceptAfterSave(d)
    \/ AcceptAfterFetchSockets(d)
    \/ AcceptBackupTimer(d)

\* SpecAccept in which the store answers, the event loop resumes a handler
\* whose await has settled and fires a timer whose delay has passed, and a
\* connection of the rider that is out of the room re-joins it
SpecAcceptLive ==
    /\ SpecAccept
    /\ \A d \in DriverIds : WF_vars(AcceptStep(d))
    /\ \A k \in Conns : WF_vars(JoinRoom(k))

\* The distances completeRide is sent
Distances == {3}

NoCompleteData ==
    [present |-> FALSE, rideId |-> NoId, hasDistance |-> FALSE, distance |-> 0]

\* The payloads of completeRide: for the stored ride with and without a
\* distance, for an id nothing is stored under, and none at all
CompletePayloads ==
    { CompleteData(OldRideDoc.RAID_ID, TRUE, x) : x \in Distances }
        \cup { CompleteData(OldRideDoc.RAID_ID, FALSE, 0),
               CompleteData(UnknownRaidId, TRUE, 3), NoCompleteData }

NextRide ==
    \E d \in DriverIds, id \in {OldRideDoc.RAID_ID, UnknownRaidId} :
        \/ \E data \in AcceptPayloads : RejectRide(d, data)
        \/ \E data \in CompletePayloads : CompleteRide(d, data)
        \/ RemoveRide(id)
        \/ \E data \in AcceptPayloads : AcceptRideStart(d, data)
        \/ AcceptFindRide(d)
        \/ AcceptFindRideFails(d)
        \/ AcceptAfterFindRide(d)
        \/ AcceptFindDriver(d)
        \/ AcceptFindDriverFails(d)
        \/ AcceptAfterFindDriver(d)
        \/ AcceptRideSave(d)
        \/ AcceptRideSaveFails(d)
        \/ AcceptAfterSave(d)
        \/ AcceptAfterFetchSockets(d)
        \/ AcceptFetchSocketsFails(d)
        \/ AcceptBackupTimer(d)

\* acceptRide, rejectRide and completeRide of the drivers on the booked ride,
\* and the removal timers
SpecRide == InitAccept /\ [][NextRide]_vars


\* SpecRide in which a pending removal timer fires (socket.js:919: setTimeout
\* callbacks run once their 5 s have passed)
SpecRideLive ==
    SpecRide /\ \A id \in {OldRideDoc.RAID_ID, UnknownRaidId} : WF_vars(RemoveRide(id))

NextLocation ==
    \E d \in DriverIds :
        \/ \E data \in AcceptPayloads : LocationUpdateStart(data)
        \/ LocationFindRide
        \/ LocationFindRideFails
        \/ LocationAfterFindRide
        \/ \E data \in AcceptPayloads : AcceptRideStart(d, data)
        \/ AcceptFindRide(d)
        \/ AcceptFindRideFails(d)
        \/ AcceptAfterFindRide(d)
        \/ AcceptFindDriver(d)
        \/ AcceptFindDriverFails(d)
        \/ AcceptAfterFindDriver(d)
        \/ AcceptRideSave(d)
        \/ AcceptRideSaveFails(d)
        \/ AcceptAfterSave(d)
        \/ AcceptAfterFetchSockets(d)
        \/ AcceptFetchSocketsFails(d)
        \/ AcceptBackupTimer(d)

\* One userLocationUpdate of the rider while the drivers accept the ride
SpecLocation == InitAccept /\ [][NextLocation]_vars


\* A location registerDriver accepts
SomeLocation == [latitude |-> "12.97", longitude |-> "77.59"]

\* One ride is booked and pending, no driver is registered yet
InitPresence ==
    /\ sequence = SeqReset + 1
    /\ rideDb = {OldRideDoc}
    /\ rides = (OldRideDoc.RAID_ID :> OldWorkingCopy)
    /\ inRoom = Conns
    /\ activeDriverSockets = EmptyMap
    /\ driverSockets = [k \in DriverConns |-> NewSocket]
    /\ uniqueIndex = TRUE
    /\ recording = FALSE
    /\ InitMemory

\* The driverIds connection k registers with: driver 1 on any connection (a
\* driver who reconnects), or the driver numbered as the connection
DriversOn(k) == {1, k} \cap DriverIds

NextSweep ==
    \E k \in DriverConns :
        \/ \E d \in DriversOn(k) :
                RegisterDriverStart(k, RegisterData(d, SomeLocation.latitude,
                                                   SomeLocation.longitude, Missing))
        \/ RegisterSave(k)
        \/ RegisterSaveFails(k)
        \/ RegisterAfterSave(k)
        \/ DriverHeartbeat(k, driverSockets[k].driverId)
        \/ Disconnect(k)
        \/ PendingSaveApplied
        \/ PendingSaveFails
        \/ Tick
        \/ Sweep

\* Drivers register, send heartbeats and drop while time passes and the
\* cleanup timer runs
SpecSweep == InitPresence /\ [][NextSweep]_vars

\* The coordinates registerDriver is sent: a usual pair, latitude 0 (a point
\* on the equator), an absent latitude, an absent longitude, a latitude no
\* place has
Coordinates ==
    { <<SomeLocation.latitude, SomeLocation.longitude>>,
      <<"0", SomeLocation.longitude>>,
      <<Missing, SomeLocation.longitude>>,
      <<SomeLocation.latitude, Missing>>,
      <<OutOfRange, SomeLocation.longitude>> }

\* The payloads of registerDriver on connection k; the vehicle type is given
\* with the usual coordinates only
RegisterPayloads(k) ==
    { RegisterData(d, c[1], c[2], v) :
        d \in DriversOn(k) \cup {NoDriver}, c \in Coordinates, v \in {Missing} }
    \cup { RegisterData(d, SomeLocation.latitude, SomeLocation.longitude, "auto") :
                d \in DriversOn(k) }

NextRegister ==
    \/ \E k \in DriverConns :
        \/ \E data \in RegisterPayloads(k) : RegisterDriverStart(k, data)
        \/ RegisterSave(k)
        \/ RegisterSaveFails(k)
        \/ RegisterAfterSave(k)
        \/ Disconnect(k)
    \/ \E c \in Conns : RequestNearbyDrivers(c)
    \/ PendingSaveApplied
    \/ PendingSaveFails

\* Drivers register and disconnect while riders ask for the driver list; no
\* time passes
SpecRegister == InitPresence /\ [][NextRegister]_vars


\* The payloads of driverLocationUpdate and driverLiveLocationUpdate: a driver
\* reports a new position
UpdatePayloads == { UpdateData(d, "13.00", "77.60", Missing) : d \in DriverIds }

LivePayloads == { LiveData(d, "13.01", "77.61") : d \in DriverIds }

\* The drivers that register: the last driver never does
Registrants == DriverIds \ {NumDrivers}

NextUpdate ==
    \/ PendingSaveApplied
    \/ PendingSaveFails
    \/ \E k \in DriverConns :
        \/ \E d \in Registrants :
            RegisterDriverStart(k, RegisterData(d, SomeLocation.latitude,
                                                SomeLocation.longitude, "auto"))
        \/ RegisterSave(k)
        \/ RegisterSaveFails(k)
        \/ RegisterAfterSave(k)
        \/ \E data \in UpdatePayloads : DriverLocationUpdateStart(k, data)
        \/ UpdateSave(k)
        \/ UpdateSaveFails(k)
        \/ \E data \in LivePayloads : LiveLocationStart(k, data)
        \/ LiveSave(k)
        \/ LiveSaveFails(k)
        \/ LiveAfterSave(k)
        \/ Disconnect(k)

\* Drivers register, report positions and disconnect; no time passes
SpecUpdate == InitPresence /\ [][NextUpdate]_vars


\* What the drivers send about the booked ride
RidePayload == AcceptData(OldRideDoc.RAID_ID)

\* The positions the registered drivers report
OwnUpdatePayloads == { data \in UpdatePayloads : data.driverId \in Registrants }

NextOnRide ==
    \/ \E k \in DriverConns :
        \/ \E d \in Registrants :
            RegisterDriverStart(k, RegisterData(d, SomeLocation.latitude,
                                                SomeLocation.longitude, "auto"))
        \/ RegisterSave(k)
        \/ RegisterAfterSave(k)
        \/ \E data \in OwnUpdatePayloads : DriverLocationUpdateStart(k, data)
        \/ UpdateSave(k)
    \/ \E d \in Registrants :
        \/ AcceptRideStart(d, RidePayload)
        \/ AcceptFindRide(d)
        \/ AcceptAfterFindRide(d)
        \/ AcceptFindDriver(d)
        \/ AcceptAfterFindDriver(d)
        \/ AcceptRideSave(d)
        \/ AcceptAfterSave(d)
        \/ AcceptAfterFetchSockets(d)
        \/ AcceptBackupTimer(d)
        \/ RejectRide(d, RidePayload)
        \/ \E x \in Distances : CompleteRide(d, CompleteData(OldRideDoc.RAID_ID, TRUE, x))
    \/ RemoveRide(OldRideDoc.RAID_ID)

\* A driver registers, accepts the booked ride, reports positions, and
\* rejects or completes the ride; the store does not fail and no time passes
SpecOnRide == InitPresence /\ [][NextOnRide]_vars


----------------------------------------------------------------------------
(* Properties of the identifier generator *)

\* the generator has returned to call c
Returned(c) == bk[c].path # "none"

\* c's identifier came from the durable counter, not from the fallback
UsedCounter(c) == bk[c].path \in {"durable", "reset"}

\* s is "RID" followed by exactly n decimal digits
IsRidWithDigits(s, n) ==
    /\ Len(s) = Len(RidTag) + n
    /\ SubSeq(s, 1, Len(RidTag)) = RidTag
    /\ \A i \in (Len(RidTag) + 1)..Len(s) : IsDigit(s[i])

Rid100000 == <<"R", "I", "D", "1", "0", "0", "0", "0", "0">>
Rid100001 == <<"R", "I", "D", "1", "0", "0", "0", "0", "1">>

\* C3: two next() calls that overlapped in time and both used the durable
\* counter returned different identifiers.
C3_OverlappingCallsDiffer ==
    \A c, d \in Calls :
        (c # d /\ {c, d} \in overlap /\ UsedCounter(c) /\ UsedCounter(d))
            => bk[c].rideId # bk[d].rideId

\* C4: identifiers returned from the durable counter with no wraparound reset
\* between their returns are pairwise distinct.
C4_DistinctWithinEpoch ==
    \A c, d \in Calls :
        (c # d /\ UsedCounter(c) /\ UsedCounter(d) /\ bk[c].retEpoch = bk[d].retEpoch)
            => bk[c].rideId # bk[d].rideId

\* C5: a call whose increment yielded more than 999999 and whose reset was
\* applied returns RID100000; applying the reset leaves the counter at 100000;
\* the increment that follows yields 100001 and that call returns RID100001.
C5_WrapReturnsRid100000 ==
    /\ [](\A c \in Calls :
            /\ (UsedCounter(c) /\ bk[c].seq > SeqCeiling) => bk[c].rideId = Rid100000
            /\ (bk[c].path = "durable" /\ bk[c].seq = 100001) => bk[c].rideId = Rid100001)
    /\ [][\A c \in Calls :
            /\ (bk[c].pc = "genReset" /\ bk'[c].pc = "genResetDone")
                    => sequence' = 100000
            /\ (sequence = 100000 /\ bk[c].pc = "genInc" /\ bk'[c].pc = "genIncDone")
                    => (sequence' = 100001 /\ bk'[c].seq = 100001)]_vars

\* C5 witness: one call wrapped and returned RID100000, the call that followed returned RID100001
C5_Witness ==
    \E c, d \in Calls :
        /\ bk[c].path = "reset" /\ bk[c].rideId = Rid100000
        /\ bk[d].path = "durable" /\ bk[d].rideId = Rid100001
        /\ sequence = 100001

\* C6: every change of the durable counter is an increase by one, or a reset
\* to 100000 applied while the stored value is above 999999.
C6_CounterChanges ==
    [][sequence' # sequence =>
            \/ sequence' = sequence + 1
            \/ (sequence' = 100000 /\ sequence > 999999)]_vars

\* C7 as claimed: every identifier returned, on every path, is RID and 6 digits.
C7_EveryIdSixDigits ==
    \A c \in Calls : Returned(c) => IsRidWithDigits(bk[c].rideId, 6)

\* C7 as amended: an identifier from the durable counter is RID and 6 digits;
\* a fallback identifier is RID and 9 digits.
C7_IdFormatByPath ==
    \A c \in Calls :
        /\ UsedCounter(c) => IsRidWithDigits(bk[c].rideId, 6)
        /\ bk[c].path = "fallback" => IsRidWithDigits(bk[c].rideId, 9)

\* C7 witness: a padded identifier from the counter and a fallback identifier
C7_Witness ==
    \E c, d \in Calls :
        /\ bk[c].path = "durable" /\ bk[c].seq < 100000
        /\ bk[d].path = "fallback"

\* C8: a call that has left the generator holds an identifier; no failure of
\* the increment or of the reset reaches bookRide.
C8_AlwaysReturnsAnId ==
    \A c \in Calls :
        (bk[c].data.present /\ bk[c].pc \notin ({"idle"} \cup GenPcs))
            => /\ Returned(c)
               /\ \/ IsRidWithDigits(bk[c].rideId, 6)
                  \/ (bk[c].path = "fallback" /\ IsRidWithDigits(bk[c].rideId, 9))

\* C8 witness: one call fell back after a failed increment, another after a failed reset
C8_Witness ==
    \E c, d \in Calls :
        /\ bk[c].path = "fallback" /\ bk[c].seq = 0
        /\ bk[d].path = "fallback" /\ bk[d].seq > SeqCeiling

----------------------------------------------------------------------------
(* Properties of bookRide *)

\* The durable records under the identifier of call c that c did not create
RecordsOfOthers(c) ==
    { r \in rideDb : r.RAID_ID = bk[c].rideId /\ r.docId # c }

\* What bookRide answers when the guard turns the call away or the store,
\* or the schema's validation, fails
TurnedAwayMessages ==
    {"Ride is already being processed", "Failed to process ride booking",
     "Validation failed", "Failed to process ride booking (duplicate error)"}

StoreFailureMessages == TurnedAwayMessages \ {"Ride is already being processed"}

CreatedNothing(c) ==
    /\ \A r \in rideDb : r.docId # c
    /\ \A id \in DOMAIN rides : rides[id].docId # c
    /\ \A e \in BagToSet(emitted) : e.docId # c

\* Call c, its payload complete, has returned and was acknowledged exactly once:
\* with success, its rideId and the otp of a record in found under the
\* message m, unless the guard turned it away or the store or validation failed
AnsweredFrom(c, found, messages) ==
    (bk[c].pc = "done" /\ ~MissingRequired(bk[c].data)) =>
        /\ Len(bk[c].acks) = 1
        /\ \/ bk[c].acks[1] \in
                { Ack(TRUE, m, bk[c].rideId, r.otp) : m \in messages, r \in found }
           \/ bk[c].acks[1] \in { FailAck(m) : m \in TurnedAwayMessages }

PastGuardPcs ==
    {"findExisting", "findExistingDone", "save", "saveDone",
     "findDuplicate", "findDuplicateDone"}

\* Call c added its identifier to processingRides and has not returned
PastGuard(c) == bk[c].pc \in PastGuardPcs

\* C10: of the bookRide calls that hold the same generated identifier, at most
\* one is past the processing guard at any time.
C10_AtMostOnePastGuard ==
    \A c, d \in Calls :
        (c # d /\ PastGuard(c) /\ PastGuard(d)) => bk[c].rideId # bk[d].rideId

----------------------------------------------------------------------------
(* Properties of acceptRide *)

\* Driver d's invocation for the stored ride has returned without a store failure
AcceptedUndisturbed(d) ==
    /\ acc[d].pc = "done"
    /\ acc[d].rideId = OldRideDoc.RAID_ID
    /\ \A i \in 1..Len(acc[d].acks) : acc[d].acks[i] # ServerError

\* C1: when the acceptRide invocations of all drivers for the same pending ride
\* have returned (the store never failing), exactly one was acknowledged with
\* success and every other one with the AlreadyAccepted failure.
C1_ExactlyOneAccepts ==
    (\A d \in DriverIds : AcceptedUndisturbed(d)) =>
        \E w \in DriverIds :
            /\ acc[w].acks = <<Ack(TRUE, "accepted", OldRideDoc.RAID_ID, OldRideDoc.otp)>>
            /\ \A l \in DriverIds \ {w} : acc[l].acks = <<AlreadyAccepted>>

\* C2: once a stored ride has status accepted, no step changes its driverId.
C2_DriverNeverOverwritten ==
    [][\A r \in rideDb : r.status = "accepted" =>
            \A q \in rideDb' : q.docId = r.docId => q.driverId = r.driverId]_vars

----------------------------------------------------------------------------
(* Properties of the processing guard's entries *)

\* No bookRide invocation is in flight
NoBookingInFlight == \A c \in Calls : bk[c].pc \in {"idle", "done"}

\* C11: every entry of processingRides is the identifier of a bookRide
\* invocation that is in flight past the guard, so the set is empty whenever no
\* invocation is in flight; and the step on which an invocation finishes, on
\* whichever exit path, leaves its identifier out of processingRides.
C11_GuardEntryReleased ==
    /\ [](/\ \A id \in processingRides : \E c \in Calls : PastGuard(c) /\ bk[c].rideId = id
          /\ NoBookingInFlight => processingRides = {})
    /\ [][\A c \in Calls :
            (bk[c].pc # "done" /\ bk'[c].pc = "done") =>
                bk'[c].rideId \notin processingRides']_vars

\* C11 witness: all invocations have finished, one because the ride already
\* existed, one on the required-field check, one on a store error past the guard
C11_Witness ==
    /\ NoBookingInFlight
    /\ processingRides = {}
    /\ \E c, d, x \in Calls :
        /\ bk[c].pc = "done" /\ bk[c].acks # <<>> /\ bk[c].acks[1].message = "Ride already exists"
        /\ bk[d].pc = "done" /\ bk[d].acks = <<FailAck("Missing required fields")>>
        /\ bk[x].pc = "done" /\ bk[x].acks = <<FailAck("Failed to process ride booking")>>
        /\ bk[x].rideId # NoId

----------------------------------------------------------------------------
(* Properties of bookRide's required-field check *)

\* The failure acknowledgement names field f
ListsField(ack, f) ==
    /\ ~ack.success
    /\ \E i \in 1..Len(MessageWords(ack.message)) : MessageWords(ack.message)[i] = f

\* C12: a bookRide invocation whose payload lacks a required field, once it has
\* returned, has been acknowledged with a failure that lists every missing
\* field, and has created no record, no working copy and no broadcast.
C12_MissingFieldsListed ==
    \A c \in Calls :
        (bk[c].pc = "done" /\ bk[c].data.present /\ MissingRequired(bk[c].data)) =>
            /\ CreatedNothing(c)
            /\ \E i \in 1..Len(bk[c].acks) :
                    \A f \in MissingFields(bk[c].data) : ListsField(bk[c].acks[i], f)

----------------------------------------------------------------------------
(* Properties of the ride lifecycle: rejectRide, completeRide, removal *)

TerminalStatuses == {"completed", "rejected"}

\* The working copy of id keeps its status in this step, or is removed
WorkingCopyKeepsStatus(id) ==
    id \in DOMAIN rides' => rides'[id].status = rides[id].status

\* The durable record r keeps its status in this step
RecordKeepsStatus(r) ==
    \A r2 \in rideDb' : r2.docId = r.docId => r2.status = r.status

\* C13: once a ride's status, in the working copy or in the durable record,
\* is completed or rejected, no later acceptRide, rejectRide or completeRide
\* changes that status.
C13_TerminalStatusKept ==
    [][/\ \A id \in DOMAIN rides :
            rides[id].status \in TerminalStatuses => WorkingCopyKeepsStatus(id)
       /\ \A r \in rideDb :
            r.status \in TerminalStatuses => RecordKeepsStatus(r)]_vars

\* The transitions of the lifecycle
LifecycleSteps ==
    { <<"pending", "accepted">>, <<"accepted", "completed">>, <<"pending", "rejected">> }

\* C14: a ride's status, in the working copy and in the durable record,
\* changes only along pending->accepted, accepted->completed and
\* pending->rejected.
C14_StatusFollowsLifecycle ==
    [][/\ \A id \in DOMAIN rides \cap DOMAIN rides' :
            \/ rides'[id].status = rides[id].status
            \/ <<rides[id].status, rides'[id].status>> \in LifecycleSteps
       /\ \A r \in rideDb, r2 \in rideDb' :
            r2.docId = r.docId =>
                \/ r2.status = r.status
                \/ <<r.status, r2.status>> \in LifecycleSteps]_vars

\* The only ride status this step changes is a working copy becoming rejected
OnlyWorkingCopyRejected ==
    /\ rideDb' = rideDb
    /\ DOMAIN rides' = DOMAIN rides
    /\ \A id \in DOMAIN rides :
            rides'[id] = rides[id] \/ rides'[id] = [rides[id] EXCEPT !.status = "rejected"]

\* C15 as stated: after rejectRide(rideId, driverId) for a driver present in
\* the registry, that driver's presence status is Live and the durable record
\* is unchanged; the only ride status changed is the working copy becoming
\* rejected.
C15_RejectRestoresLive ==
    [][\A d \in DriverIds, data \in AcceptPayloads :
            (RejectRide(d, data) /\ data.present /\ d \in DOMAIN activeDriverSockets) =>
                /\ activeDriverSockets'[d].status = "Live"
                /\ OnlyWorkingCopyRejected]_vars

\* C15, amended: the same for a ride that has a working copy, whose status
\* becomes rejected; for a rideId without a working copy rejectRide changes
\* neither a ride status nor the driver's presence.
C15_RejectWithWorkingCopy ==
    [][\A d \in DriverIds, data \in AcceptPayloads :
            RejectRide(d, data) =>
                IF data.present /\ data.rideId \in DOMAIN rides
                THEN /\ d \in DOMAIN activeDriverSockets =>
                            activeDriverSockets'[d].status = "Live"
                     /\ rides'[data.rideId].status = "rejected"
                     /\ OnlyWorkingCopyRejected
                ELSE UNCHANGED <<rides, rideDb, activeDriverSockets>>]_vars

\* Driver d has accepted the ride (which put its entry onRide), the ride was
\* then rejected, and d's entry is Live over an accepted durable record
C15_Witness ==
    /\ OldRideDoc.RAID_ID \in DOMAIN rides
    /\ rides[OldRideDoc.RAID_ID].status = "rejected"
    /\ \E r \in rideDb : r.status = "accepted"
    /\ \E d \in DOMAIN activeDriverSockets :
            /\ acc[d].pc = "done"
            /\ acc[d].acks # <<>>
            /\ acc[d].acks[1].success
            /\ ~acc[d].timer
            /\ activeDriverSockets[d].status = "Live"

\* The rideCompleted events this step emits
NewRideCompleted ==
    { e \in BagToSet(emitted') :
        e.event = "rideCompleted" /\ CopiesIn(e, emitted') > CopiesIn(e, emitted) }

\* This step sends one rideCompleted{rideId, distance}, to the room of the
\* rider who booked the ride, and delivers it to nobody outside that room
NotifiesOnlyTheRider(data) ==
    /\ \E e \in NewRideCompleted :
            /\ NewRideCompleted = {e}
            /\ CopiesIn(e, emitted') = CopiesIn(e, emitted) + 1
            /\ e.rideId = data.rideId
            /\ e.distance = data.distance
            /\ e.to = "userRoom"
            /\ \E r \in rideDb : r.RAID_ID = data.rideId /\ r.user = e.room
    /\ \A k \in Conns :
            received'[k] # received[k] =>
                \E r \in rideDb : r.RAID_ID = data.rideId /\ k \in RoomMembers(r.user)

\* C16 as stated: after completeRide on a ride that has a working copy, the
\* working copy is completed, one rideCompleted{rideId, distance} has been
\* sent to the room of the rider who booked the ride and to nobody else, and
\* the driver's presence status is Live.
C16_CompleteNotifiesRider ==
    [][\A d \in DriverIds, data \in CompletePayloads :
            (CompleteRide(d, data) /\ data.present /\ data.rideId \in DOMAIN rides) =>
                /\ rides'[data.rideId].status = "completed"
                /\ NotifiesOnlyTheRider(data)
                /\ d \in DOMAIN activeDriverSockets'
                /\ activeDriverSockets'[d].status = "Live"]_vars

\* C16, amended: the same when the distance is a number, the presence status
\* for a driver present in the registry, and the removal of the working copy
\* is scheduled; a completeRide whose distance is not a number, or for a ride
\* without a working copy, changes nothing and notifies nobody.
C16_CompleteWithDistance ==
    [][\A d \in DriverIds, data \in CompletePayloads :
            CompleteRide(d, data) =>
                IF data.present /\ data.hasDistance /\ data.rideId \in DOMAIN rides
                THEN /\ rides'[data.rideId].status = "completed"
                     /\ NotifiesOnlyTheRider(data)
                     /\ d \in DOMAIN activeDriverSockets =>
                            activeDriverSockets'[d].status = "Live"
                     /\ CopiesIn(data.rideId, removals') = CopiesIn(data.rideId, removals) + 1
                ELSE UNCHANGED <<rides, rideDb, activeDriverSockets, emitted,
                                 received, removals>>]_vars

\* Driver d has accepted the ride and then completed it: the working copy is
\* completed, its removal is pending, every connection in the rider's room
\* holds the rideCompleted event and d's entry is Live
C16_Witness ==
    /\ OldRideDoc.RAID_ID \in DOMAIN rides
    /\ rides[OldRideDoc.RAID_ID].status = "completed"
    /\ BagIn(OldRideDoc.RAID_ID, removals)
    /\ \A k \in inRoom : \E e \in received[k] :
            e.event = "rideCompleted" /\ e.rideId = OldRideDoc.RAID_ID
    /\ inRoom # {}
    /\ \E d \in DOMAIN activeDriverSockets :
            /\ acc[d].pc = "done"
            /\ acc[d].acks # <<>>
            /\ acc[d].acks[1].success
            /\ activeDriverSockets[d].status = "Live"

\* C17: every working copy whose status becomes completed or rejected is
\* eventually removed from the working set.
C17_TerminalCopyRemoved ==
    \A id \in {OldRideDoc.RAID_ID, UnknownRaidId} :
        (id \in DOMAIN rides /\ rides[id].status \in TerminalStatuses)
            ~> (id \notin DOMAIN rides)

----------------------------------------------------------------------------
(* Properties of the notifications of acceptRide and userLocationUpdate *)

\* The rideAccepted events for the ride `id` among the events es
RideAcceptedIn(es, id) ==
    { e \in es : e.event = "rideAccepted" /\ e.rideId = id }

\* Every connection in the rider's room holds a rideAccepted for d's ride
\* after this step
RoomHoldsRideAccepted(d) ==
    \A k \in RoomMembers(acc[d].ride[1].user) :
        \E e \in RideAcceptedIn(received'[k], acc[d].rideId) :
            e.driverId = d /\ e.otp = acc[d].ride[1].otp

\* C18: when acceptRide succeeds, rideAccepted is published to the rider's
\* room, delivered directly to every connection joined to it at that moment
\* and delivered to the room once more when the backup timer fires, so that
\* every connection that stays in the room receives it; all copies for the
\* ride carry the same rideId, driverId and otp.
C18_RideAcceptedDelivered ==
    /\ [][\A d \in DriverIds :
            (AcceptAfterSave(d) \/ AcceptAfterFetchSockets(d) \/ AcceptBackupTimer(d))
                => RoomHoldsRideAccepted(d)]_vars
    /\ [](\A e1, e2 \in BagToSet(emitted) :
            (e1.event = "rideAccepted" /\ e2.event = "rideAccepted"
                /\ e1.rideId = e2.rideId)
                => (e1.driverId = e2.driverId /\ e1.otp = e2.otp))

\* Some connection of the rider holds a rideAccepted for the ride `id`
RiderHoldsRideAccepted(id) ==
    \E k \in Conns : RideAcceptedIn(received[k], id) # {}

\* C19: every rider whose ride is accepted eventually receives rideAccepted
\* for it, even if the rider's connection was out of the rider's room at the
\* moment of acceptance and re-joins the room afterwards.
C19_RiderEventuallyTold ==
    \A r \in {OldRideDoc} :
        (\E s \in rideDb : s.docId = r.docId /\ s.status = "accepted")
            ~> RiderHoldsRideAccepted(r.RAID_ID)

\* The userLiveLocationUpdate events this step emits
NewLocationUpdates ==
    { e \in BagToSet(emitted') :
        e.event = "userLiveLocationUpdate" /\ CopiesIn(e, emitted') > CopiesIn(e, emitted) }

\* C20: userLocationUpdate for ride R emits userLiveLocationUpdate only to
\* the connection or room of the driver bound to R in the durable record;
\* when R does not exist or has no bound driver, nothing is emitted.
C20_LocationOnlyToBoundDriver ==
    [][\A e \in NewLocationUpdates :
            \E r \in rideDb :
                /\ r.RAID_ID = e.rideId
                /\ r.driverId # NoDriver
                /\ r.driverId = e.toDriver]_vars

----------------------------------------------------------------------------
(* Properties of acceptRide's outcome for the driver *)

\* Driver d's invocation finishes in this step and every acknowledgement it
\* has given is a success
AcceptFinishesWithSuccess(d) ==
    /\ acc[d].pc # "done"
    /\ acc'[d].pc = "done"
    /\ acc'[d].acks # <<>>
    /\ \A i \in 1..Len(acc'[d].acks) : acc'[d].acks[i].success

NewRideAlreadyAccepted ==
    { e \in BagToSet(emitted') :
        e.event = "rideAlreadyAccepted" /\ CopiesIn(e, emitted') > CopiesIn(e, emitted) }

\* C30: an acceptRide that finds the durable record already accepted
\* acknowledges the AlreadyAccepted failure, leaves the durable record and
\* the registry unchanged, and emits rideAlreadyAccepted for the ride to the
\* connections other than the caller's.
C30_AlreadyAcceptedRefused ==
    [][\A d \in DriverIds :
            (/\ AcceptAfterFindRide(d)
             /\ acc[d].ride # NoDoc
             /\ acc[d].ride[1].status = "accepted") =>
                /\ acc'[d].pc = "done"
                /\ acc'[d].acks = <<FailAck("This ride has already been accepted by another driver.")>>
                /\ rideDb' = rideDb
                /\ activeDriverSockets' = activeDriverSockets
                /\ \E e \in NewRideAlreadyAccepted :
                        /\ NewRideAlreadyAccepted = {e}
                        /\ CopiesIn(e, emitted') = CopiesIn(e, emitted) + 1
                        /\ e.rideId = acc[d].rideId
                        /\ e.to = "others"
                        /\ e.sender = d
                /\ \A e \in BagToSet(emitted') :
                        CopiesIn(e, emitted') > CopiesIn(e, emitted)
                            => e.event = "rideAlreadyAccepted"]_vars

\* One driver has accepted the ride and the other, a registered driver whose
\* entry is still Live, has been refused
C30_Witness ==
    \E d, w \in DriverIds :
        /\ d # w
        /\ acc[w].pc = "done"
        /\ acc[w].acks # <<>>
        /\ acc[w].acks[1].success
        /\ acc[d].pc = "done"
        /\ acc[d].acks = <<AlreadyAccepted>>
        /\ d \in DOMAIN activeDriverSockets
        /\ activeDriverSockets[d].status = "Live"
        /\ \E r \in rideDb : r.status = "accepted" /\ r.driverId = w

----------------------------------------------------------------------------
(* Properties of the presence registry *)

\* Entry d is offline and its lastUpdate is older than now minus 5 minutes
OfflineAndOld(d) ==
    /\ ~activeDriverSockets[d].isOnline
    /\ now - activeDriverSockets[d].lastUpdate > 300000

\* C21: one sweep at time now deletes exactly the entries with isOnline =
\* false and lastUpdate older than now minus 5 minutes; every other entry
\* stays in the registry unchanged.
C21_SweepDeletesExactlyStale ==
    [][Sweep =>
        /\ DOMAIN activeDriverSockets' \subseteq DOMAIN activeDriverSockets
        /\ \A d \in DOMAIN activeDriverSockets :
                IF OfflineAndOld(d)
                THEN d \notin DOMAIN activeDriverSockets'
                ELSE /\ d \in DOMAIN activeDriverSockets'
                     /\ activeDriverSockets'[d] = activeDriverSockets[d]]_vars

\* Driver d registered on connection k and its entry is gone
SweptAway(d) ==
    /\ d \notin DOMAIN activeDriverSockets
    /\ \E k \in DriverConns : driverSockets[k].driverId = d /\ reg[k].pc = "done"

\* A sweep has deleted the entry of one driver, and the entry of another,
\* offline as well, is still there
C21_Witness ==
    \E d, x \in DriverIds :
        /\ SweptAway(d)
        /\ x \in DOMAIN activeDriverSockets
        /\ ~activeDriverSockets[x].isOnline

\* C22: an entry marked offline by disconnect is retained for the whole
\* 5-minute window: no sweep deletes it earlier than 5 minutes after the
\* moment it was marked offline.
C22_OfflineEntryRetained ==
    [][\A d \in DOMAIN activeDriverSockets :
            (d \notin DOMAIN activeDriverSockets' /\ markedOffline[d] # NotMarked) =>
                now - markedOffline[d] >= 300000]_vars

\* Driver d has a registered connection that is alive
HasLiveConnection(d) ==
    \E k \in DriverConns : driverSockets[k].connected /\ driverSockets[k].driverId = d

\* Driver d is bound to an accepted ride
BoundToAcceptedRide(d) ==
    \E r \in rideDb : r.status = "accepted" /\ r.driverId = d

\* C23: no sweep removes an entry that is in active use: one whose driver
\* has a live registered connection or is bound to an accepted, not yet
\* completed ride.
C23_SweepSparesActiveEntries ==
    [][\A d \in DOMAIN activeDriverSockets :
            d \notin DOMAIN activeDriverSockets' =>
                ~(HasLiveConnection(d) \/ BoundToAcceptedRide(d))]_vars
----------------------------------------------------------------------------
(* Properties of registerDriver, the location updates and disconnect *)

\* The payload carries a driverId and both coordinates
PresentRegistration(data) ==
    /\ data.driverId # NoDriver
    /\ data.latitude # Missing
    /\ data.longitude # Missing

\* The registry's entry for the payload's driver is the one the payload
\* describes, bound to connection k
EntryAsRegistered(registry, k, data) ==
    /\ data.driverId \in DOMAIN registry
    /\ registry[data.driverId].isOnline
    /\ registry[data.driverId].status = "Live"
    /\ registry[data.driverId].location.latitude = data.latitude
    /\ registry[data.driverId].location.longitude = data.longitude
    /\ registry[data.driverId].vehicleType = VehicleTypeOf(data)
    /\ registry[data.driverId].socketId = k

\* C24: registerDriver with a present driverId and location leaves in the
\* registry one entry for that driverId, online, Live, with the given location
\* and vehicle type, bound to the calling connection; and when the handler
\* comes back from its save the caller is sent driverRegistrationConfirmed with
\* success = true.
C24_RegisterStoresEntry ==
    [][\A k \in DriverConns :
        /\ \A data \in RegisterPayloads(k) :
                (RegisterDriverStart(k, data) /\ PresentRegistration(data))
                    => EntryAsRegistered(activeDriverSockets', k, data)
        /\ RegisterAfterSave(k)
                => /\ DriverRegistrationConfirmed(k) \in BagToSet(emitted')
                   /\ DriverRegistrationConfirmed(k).success]_vars

\* The payload lacks its driverId or a coordinate, or its latitude is one no
\* place has
InvalidRegistration(data) ==
    \/ data.driverId = NoDriver
    \/ data.latitude \in {Missing, OutOfRange}
    \/ data.longitude = Missing

\* C25: registerDriver with a missing driverId or a missing or invalid location
\* changes nothing: the registry, the connection's driver identity and its
\* rooms stay as they are, nothing is emitted, and the handler is over.
C25_InvalidRegistrationIgnored ==
    [][\A k \in DriverConns : \A data \in RegisterPayloads(k) :
            (RegisterDriverStart(k, data) /\ InvalidRegistration(data))
                => /\ UNCHANGED <<activeDriverSockets, driverSockets, emitted>>
                   /\ reg'[k].pc = "done"]_vars

\* C26: driverLocationUpdate for a driverId the registry does not hold is a
\* no-op: the registry stays as it is, nothing is emitted and no location save
\* is issued.
C26_UnknownDriverUpdateIgnored ==
    [][\A k \in DriverConns : \A data \in UpdatePayloads :
            (/\ DriverLocationUpdateStart(k, data)
             /\ data.driverId \notin DOMAIN activeDriverSockets)
                => /\ UNCHANGED <<activeDriverSockets, emitted>>
                   /\ upd'[k].pc # "save"]_vars

\* What does hold of driverLocationUpdate for an unknown driver: no entry is made
C26_UnknownDriverNotRegistered ==
    [][\A k \in DriverConns : \A data \in UpdatePayloads :
            (/\ DriverLocationUpdateStart(k, data)
             /\ data.driverId \notin DOMAIN activeDriverSockets)
                => UNCHANGED activeDriverSockets]_vars

\* What does hold of driverLiveLocationUpdate for an unknown driver: nothing happens
C26_UnknownDriverLiveUpdateIgnored ==
    [][\A k \in DriverConns : \A data \in LivePayloads :
            (/\ LiveLocationStart(k, data)
             /\ data.driverId \notin DOMAIN activeDriverSockets)
                => /\ UNCHANGED <<activeDriverSockets, emitted, driverLocations>>
                   /\ upd'[k].pc = "done"]_vars

\* The driver lists emitted by the step
NewDriverLists ==
    { e \in BagToSet(emitted') :
        e.event = "driverLocationsUpdate" /\ CopiesIn(e, emitted') > CopiesIn(e, emitted) }

\* The drivers a list names
DriversListed(e) == { s.driverId : s \in e.drivers }

\* C27: when a connection bound to driver D disconnects, D's entry stays in
\* the registry with isOnline = false, status Offline and the location it had,
\* no other entry changes, and the driver list the handler then sends to
\* everyone does not name D.
C27_DisconnectMarksOffline ==
    [][\A k \in DriverConns :
        (Disconnect(k) /\ driverSockets[k].driverId \in DOMAIN activeDriverSockets)
            => /\ DOMAIN activeDriverSockets' = DOMAIN activeDriverSockets
               /\ ~activeDriverSockets'[driverSockets[k].driverId].isOnline
               /\ activeDriverSockets'[driverSockets[k].driverId].status = "Offline"
               /\ activeDriverSockets'[driverSockets[k].driverId].location =
                    activeDriverSockets[driverSockets[k].driverId].location
               /\ \A x \in DOMAIN activeDriverSockets \ {driverSockets[k].driverId} :
                    activeDriverSockets'[x] = activeDriverSockets[x]
               /\ NewDriverLists # {}
               /\ \A e \in NewDriverLists :
                    /\ e.to = "all"
                    /\ driverSockets[k].driverId \notin DriversListed(e)]_vars

\* A connection has dropped, its driver's entry is offline, and a list that
\* names another driver but not this one has gone out
C27_Witness ==
    \E k \in DriverConns :
        /\ ~driverSockets[k].connected
        /\ driverSockets[k].driverId \in DOMAIN activeDriverSockets
        /\ ~activeDriverSockets[driverSockets[k].driverId].isOnline
        /\ activeDriverSockets[driverSockets[k].driverId].status = "Offline"
        /\ \E e \in BagToSet(emitted) :
            /\ e.event = "driverLocationsUpdate"
            /\ DriversListed(e) # {}
            /\ driverSockets[k].driverId \notin DriversListed(e)

\* The driver lists, of either kind, emitted by the step
NewLists ==
    { e \in BagToSet(emitted') :
        /\ e.event \in {"driverLocationsUpdate", "nearbyDriversResponse"}
        /\ CopiesIn(e, emitted') > CopiesIn(e, emitted) }

\* The drivers whose entry is online
OnlineIn(registry) == { d \in DOMAIN registry : registry[d].isOnline }

\* C28: a driver list sent in driverLocationsUpdate or nearbyDriversResponse
\* names, once each, exactly the drivers whose entry is online when it is
\* sent; no element of it has a socketId; and nearbyDriversResponse goes to
\* the socket of the connection that asked, and to no one else.
C28_ListsShowOnlineDrivers ==
    [][/\ \A e \in NewLists :
            /\ DriversListed(e) = OnlineIn(activeDriverSockets')
            /\ Cardinality(e.drivers) = Cardinality(OnlineIn(activeDriverSockets'))
            /\ \A s \in e.drivers : "socketId" \notin DOMAIN s
            /\ e.event = "nearbyDriversResponse" => e.to = "userSocket"
       /\ \A c \in Conns :
            RequestNearbyDrivers(c)
                => /\ NewLists # {}
                   /\ \A e \in NewLists :
                        e.event = "nearbyDriversResponse" /\ e.requester = c]_vars

\* A rider has been sent a list that names a driver while another driver's
\* entry is in the registry, offline, and is not in the list
C28_Witness ==
    \E e \in BagToSet(emitted) :
        /\ e.event = "nearbyDriversResponse"
        /\ DriversListed(e) # {}
        /\ \E d \in DOMAIN activeDriverSockets :
            ~activeDriverSockets[d].isOnline /\ d \notin DriversListed(e)

----------------------------------------------------------------------------
(* Properties of bookRide's broadcast, guard and acknowledgement *)

\* The newRideRequest events about the record of call c
RequestsFor(c) ==
    { e \in BagToSet(emitted) : e.event = "newRideRequest" /\ e.docId = c }

\* How many newRideRequest events about the record of call c have gone out
RequestCount(c) ==
    IF RequestsFor(c) = {} THEN 0
    ELSE CopiesIn(CHOOSE e \in RequestsFor(c) : TRUE, emitted)

\* Call c was acknowledged as a new booking
BookedAnew(c) ==
    \E i \in 1..Len(bk[c].acks) : bk[c].acks[i].message = "Ride booked successfully!"

\* The pending record call c stored under the identifier it generated
PendingRecordOf(c) ==
    { r \in rideDb : r.docId = c /\ r.RAID_ID = bk[c].rideId /\ r.status = "pending" }

\* C33 (states): every newRideRequest is about a call's stored pending record
\* and names that record's identifier; a call acknowledged as a new booking
\* has exactly one newRideRequest, every other call, whether it is in flight,
\* failed validation, failed to persist or was resolved as a duplicate, none.
C33_RequestPerBooking ==
    \A c \in Calls :
        /\ Cardinality(RequestsFor(c)) <= 1
        /\ \A e \in RequestsFor(c) :
                PendingRecordOf(c) # {} /\ e.rideId = bk[c].rideId /\ e.to = "all"
        /\ RequestCount(c) = IF BookedAnew(c) THEN 1 ELSE 0

\* C33: newRideRequest for ride R is emitted only after the pending record for
\* R has been persisted, exactly once per successful booking, and never for a
\* booking that fails validation, fails to persist or is resolved as a
\* duplicate.  The step that emits it finds the record stored already.
C33_RequestAfterPersist ==
    [][\A c \in Calls :
        /\ RequestCount(c)' > RequestCount(c) => PendingRecordOf(c) # {}
        /\ C33_RequestPerBooking']_vars

\* One call has booked a ride and its request has gone out, another was
\* resolved as a duplicate, and a third failed; neither has a request
C33_Witness ==
    \E c, d, f \in Calls :
        /\ BookedAnew(c) /\ RequestCount(c) = 1
        /\ bk[d].pc = "done" /\ bk[d].taken /\ RequestCount(d) = 0
        /\ \E i \in 1..Len(bk[d].acks) : bk[d].acks[i].success
        /\ bk[f].pc = "done" /\ RequestCount(f) = 0
        /\ \E i \in 1..Len(bk[f].acks) : bk[f].acks[i].message \in StoreFailureMessages

\* C34: an identifier stays in processingRides from the moment a bookRide
\* invocation adds it until that invocation finishes; an invocation that is
\* turned away because the identifier is being processed does not remove it.
C34_EntryHeldUntilFinished ==
    \A c \in Calls : PastGuard(c) => bk[c].rideId \in processingRides

\* C38: every successful bookRide acknowledgement carries the rideId and otp
\* of a durable record whose user is the rider who sent the booking.
C38_AckRefersToOwnRide ==
    \A c \in Calls : \A i \in 1..Len(bk[c].acks) :
        bk[c].acks[i].success =>
            \E r \in rideDb :
                /\ r.RAID_ID = bk[c].acks[i].rideId
                /\ r.otp = bk[c].acks[i].otp
                /\ r.user = bk[c].data.userId

\* C39: every bookRide invocation invokes its acknowledgement callback exactly
\* once, on every path: nothing is acknowledged while the handler is running,
\* and when it has returned it has acknowledged once.
C39_AcknowledgedExactlyOnce ==
    \A c \in Calls :
        Len(bk[c].acks) = IF bk[c].pc = "done" THEN 1 ELSE 0

\* All calls have returned: one was turned away by the guard, one ran into
\* the duplicate-key error and was answered from the stored record
C39_Witness ==
    /\ \A c \in Calls : bk[c].pc = "done"
    /\ \E c, d \in Calls :
        /\ bk[c].acks = <<FailAck("Ride is already being processed")>>
        /\ Len(bk[d].acks) = 1
        /\ bk[d].acks[1].message = "Ride already exists (duplicate handled)"

----------------------------------------------------------------------------
(* Properties of acceptRide's emissions and failures *)

\* C40: a ride's otp is sent only to the rider who booked the ride and to the
\* driver who accepted it: no event emitted to all connections carries an otp.
C40_OtpNotBroadcast ==
    \A e \in BagToSet(emitted) :
        e.to \in {"all", "others"} => e.otp = NoOtp

\* A durable read or the durable save of driver d's acceptRide rejects
AcceptStoreFails(d) ==
    AcceptFindRideFails(d) \/ AcceptFindDriverFails(d) \/ AcceptRideSaveFails(d)

\* The record is pending with no driver bound, unless another driver's
\* acceptRide has bound it
UntouchedBy(d, r) ==
    \/ r.status = "pending" /\ r.driverId = NoDriver
    \/ r.driverId \in DriverIds \ {d}

\* C32: when a durable read or the durable save inside acceptRide fails, the
\* caller is acknowledged once, with a failure; the invocation has written
\* nothing, so the record stays pending and unbound as far as this driver is
\* concerned; it has emitted no rideAccepted, userDataForDriver or
\* rideAlreadyAccepted, and the registry is as it was.
C32_AcceptFailureLeavesNoTrace ==
    [][\A d \in DriverIds :
        AcceptStoreFails(d) =>
            /\ acc'[d].pc = "done"
            /\ Len(acc'[d].acks) = 1
            /\ ~acc'[d].acks[1].success
            /\ UNCHANGED <<rideDb, emitted, received, activeDriverSockets>>
            /\ \A r \in rideDb' : UntouchedBy(d, r)
            /\ \A e \in BagToSet(emitted') : e.sender # d]_vars

\* A store call of a registered driver's acceptRide was rejected: the driver
\* was told of the failure, the record is pending and unbound, the driver's entry is Live
C32_Witness ==
    \E d \in DOMAIN activeDriverSockets :
        /\ acc[d].pc = "done"
        /\ acc[d].rideId = OldRideDoc.RAID_ID
        /\ acc[d].acks = <<ServerError>>
        /\ rideDb = {OldRideDoc}
        /\ activeDriverSockets[d].status = "Live"
        /\ \A x \in DriverIds \ {d} : acc[x].pc = "idle"

----------------------------------------------------------------------------
(* Properties of the presence status *)

\* C35: a disconnect marks driver D offline only if the disconnecting
\* connection is the one bound in D's registry entry: the entry of a driver
\* who has registered again on a new connection is left alone when the old
\* connection drops.
C35_OnlyBoundConnectionMarksOffline ==
    [][\A k \in DriverConns :
        Disconnect(k) =>
            \A d \in DOMAIN activeDriverSockets :
                activeDriverSockets[d].socketId # k
                    => /\ d \in DOMAIN activeDriverSockets'
                       /\ activeDriverSockets'[d] = activeDriverSockets[d]]_vars

\* C36: in every reachable state each registry entry has isOnline = false
\* exactly when its status is Offline.
C36_OfflineIffNotOnline ==
    \A d \in DOMAIN activeDriverSockets :
        ~activeDriverSockets[d].isOnline <=> activeDriverSockets[d].status = "Offline"

\* Driver d's rejectRide or completeRide
EndsRide(d) ==
    \/ RejectRide(d, RidePayload)
    \/ \E x \in Distances : CompleteRide(d, CompleteData(OldRideDoc.RAID_ID, TRUE, x))

\* C37: a driver who has accepted a ride keeps the presence status onRide
\* until that driver's completeRide or rejectRide: no location update and no
\* registration in between changes the status.
C37_OnRideUntilRideEnds ==
    [][\A d \in DOMAIN activeDriverSockets :
        (activeDriverSockets[d].status = "onRide" /\ ~EndsRide(d))
            => /\ d \in DOMAIN activeDriverSockets'
               /\ activeDriverSockets'[d].status = "onRide"]_vars


\* C31: no handler invocation ends in an uncaught exception: for every
\* payload, an absent one included, and every outcome of the durable store,
\* the acceptRide handler finishes with an acknowledgement or a log line
\* and never leaves a rejected invocation behind.
C31_NoHandlerRejects ==
    \A d \in DriverIds : acc[d].pc # "rejected"
====
